---- MODULE Spec2Model ----
(***************************************************************************)
(* A model of the call machinery of the binder and the constant evaluator, *)
(* and of the symbols it works on:                                         *)
(*   - CallExpression::evalImpl (the constant-function call machine),      *)
(*   - CallExpression::verifyConstantImpl (with its recursion guard),      *)
(*   - CallExpression::fromArgs (matching call arguments to formals),      *)
(*   - checkConstant and the verifyConstantImpl/evalImpl of value names,   *)
(*   - fromSymbol, fromLookup, verifyAssignableImpl, MinTypMaxExpression,  *)
(*   - bindIteratorExpr (the with-clause of an array method),              *)
(*   - the import symbols, Type::getCanonicalType, the walks over parent   *)
(*     scopes, SubroutineSymbol::fromSyntax and findChildSymbols.          *)
(* Spec is the call machine, SpecVerify adds verification of calls,        *)
(* SpecArgs is argument matching, SpecConst is constant verification,      *)
(* SpecBind is binding, SpecIter is with-clauses, SpecImport is imports,   *)
(* SpecType is canonical types, SpecScope is the scope walks, SpecPorts    *)
(* and SpecBody are subroutine declarations.                               *)
(***************************************************************************)
EXTENDS Integers, Sequences, FiniteSets, TLC

VARIABLES
    scriptEval,  \* EvalContext: the script-eval flag
    stack,       \* EvalContext: the stack of frames
    diags,       \* the diagnostics emitted so far, in order
    ctl,         \* the evalImpl invocations in progress, innermost last
    ret,         \* <<v>>: the value the last finished evalImpl returned
    top,         \* the call expression handed to the outermost evalImpl
    formals,     \* fromArgs: the callee's formal arguments
    argSyntax,   \* fromArgs: the argument list of the call
    call,        \* fromArgs: <<e>>, the returned call expression
    bindDiags,   \* fromArgs: the diagnostics added to the bind context
    bindLocals,  \* fromArgs: its local variables when it returned
    options,     \* Compilation: the compilation options
    bindCtx,     \* the BindContext an expression is bound in
    enclosing,   \* the with-clauses being bound around it, outermost first
    query,       \* the verification or binding routine entered, with its inputs
    answer,      \* <<r>>: what that routine returned
    vctl,        \* the verifyConstantImpl invocations in progress, innermost last
    vret,        \* <<b>>: what the last finished verifyConstantImpl returned
    inRecursion, \* the call expressions whose inRecursion flag is set
    imports,     \* the import symbols of the design, with their lazy fields
    types,       \* the types created so far, with their canonical pointers
    symtab,      \* the symbols of the design, each with its parent scope
    walk         \* the walk over parent scopes in progress, or its result

evalVars == <<scriptEval, stack, diags, ctl, ret, top>>
argVars == <<formals, argSyntax, call, bindDiags, bindLocals>>
scopeVars == <<symtab, walk>>
objVars == <<vctl, vret, inRecursion, imports, types, scopeVars>>
semVars == <<options, objVars, bindCtx, enclosing, query, answer>>
vars == <<scriptEval, stack, diags, ctl, ret, top,
          formals, argSyntax, call, bindDiags, bindLocals,
          options, bindCtx, enclosing, query, answer,
          vctl, vret, inRecursion, imports, types, symtab, walk>>

\* No verification is in progress, no flag is set, no import is declared.
NoObjects ==
    /\ vctl = <<>>
    /\ vret = <<>>
    /\ inRecursion = {}
    /\ imports = <<>>
    /\ types = <<>>
    /\ symtab = <<>>
    /\ walk = <<>>

\* ------------------------------------------------------------------ bounds

\* maxRecursionDepth option: the ceiling on the frame stack.
maxRecursionDepth == 5

\* The most formals a callee has and the most arguments a call supplies.
MaxFormals == 2
MaxArgs == 3

\* The largest declaration-order index of a compilation unit, and the most
\* scopes that enclose a symbol.
MaxIndex == 2
MaxScopeDepth == 2

\* The deepest nesting of with-clauses.
MaxNesting == 2

\* The most calls made on the import symbols of a design.
MaxCalls == 3

\* The most types a design creates.
MaxTypes == 4

\* The symbols a design declares besides its root.
MaxSymbols == 3

\* The ports of a prototype.
MaxPorts == 3

\* The items of a subroutine body, and how deep its statements nest.
MaxItems == 2

MaxStatementDepth == 1

\* ------------------------------------------------------------------ values

\* A ConstantValue: an integer, or the sentinel bad (nullptr).
Val(n) == [ok |-> TRUE, n |-> n]
Bad == [ok |-> FALSE, n |-> 0]

Last(s) == s[Len(s)]
Front(s) == SubSeq(s, 1, Len(s) - 1)

\* ----------------------------------------------------------------- options

\* CompilationOptions: the two options the binder reads here.
MinTypMaxValues == {"Min", "Typ", "Max"}
CompilationOptions(hier, mtm) ==
    [allowHierarchicalConst |-> hier, minTypMax |-> mtm]
DefaultOptions == CompilationOptions(FALSE, "Typ")

\* The BindContext before any expression is bound.
NoBindContext == [scope |-> <<>>, flags |-> {}, firstIterator |-> <<>>]

\* No verification or binding routine has been entered.
NoQuery == [op |-> "none"]

\* ------------------------------------------------------------- expressions

\* Bound expressions. k: "lit" a literal, "bad" an expression whose evaluation
\* fails, "var" a NamedValueExpression, "dec" (s - 1), "sub" (s - t),
\* "call" a CallExpression of subroutine f with arguments args.
Lit(n) == [k |-> "lit", n |-> n, s |-> "", t |-> "", f |-> "", args |-> <<>>,
           thisClass |-> FALSE]
BadE == [k |-> "bad", n |-> 0, s |-> "", t |-> "", f |-> "", args |-> <<>>,
         thisClass |-> FALSE]
Var(s) == [k |-> "var", n |-> 0, s |-> s, t |-> "", f |-> "", args |-> <<>>,
           thisClass |-> FALSE]
Dec(s) == [k |-> "dec", n |-> 0, s |-> s, t |-> "", f |-> "", args |-> <<>>,
           thisClass |-> FALSE]
Sub(s, t) == [k |-> "sub", n |-> 0, s |-> s, t |-> t, f |-> "", args |-> <<>>,
              thisClass |-> FALSE]
Call(f, args) == [k |-> "call", n |-> 0, s |-> "", t |-> "", f |-> f,
                  args |-> args, thisClass |-> FALSE]
MethodCall(f, args) == [k |-> "call", n |-> 0, s |-> "", t |-> "", f |-> f,
                        args |-> args, thisClass |-> TRUE]

\* -------------------------------------------------------------- statements

\* The statements of a subroutine body. k: "ifle" if (s <= n) return e;
\* "assign" <function name> = e; "retmul" return s * c (c a call);
\* "disable" a disable of a block that is not executing; "fail" a statement
\* whose evaluation fails.
StIfLe(s, n, e) == [k |-> "ifle", s |-> s, n |-> n, e |-> e]
StAssign(e) == [k |-> "assign", s |-> "", n |-> 0, e |-> e]
StRetMul(s, c) == [k |-> "retmul", s |-> s, n |-> 0, e |-> c]
StDisable == [k |-> "disable", s |-> "", n |-> 0, e |-> BadE]
StFail == [k |-> "fail", s |-> "", n |-> 0, e |-> BadE]

\* ------------------------------------------------------------- subroutines

NoSub == "none"

\* The subroutines of the design under evaluation:
\*   function int fact(int n); if (n <= 1) return 1; return n * fact(n-1);
\*   function int sub2(int a, int b); sub2 = a - b;
\*   function int dis(int x); dis = x; disable blk;   (blk not executing)
\*   function int fails(int y); fails = y; <failing statement>
\*   function int down(int m); return m * down(m-1);   (no base case)
\*   task tsk();
\*   function int ping(int p); return p * pong(p-1);
\*   function int pong(int q); return q * ping(q-1);
\*   function int d1(); d1 = d2();  d2 = d3();  d3 = d4();  d4 = d5();
\*   function int d5(); d5 = 1;
SubNames == {"fact", "sub2", "dis", "fails", "down", "tsk", "ping", "pong",
             "d1", "d2", "d3", "d4", "d5"}

Formals(f) ==
    CASE f = "fact" -> <<"n">>
      [] f = "sub2" -> <<"a", "b">>
      [] f = "dis" -> <<"x">>
      [] f = "fails" -> <<"y">>
      [] f = "down" -> <<"m">>
      [] f = "ping" -> <<"p">>
      [] f = "pong" -> <<"q">>
      [] OTHER -> <<>>

Body(f) ==
    CASE f = "fact" -> <<StIfLe("n", 1, Lit(1)),
                         StRetMul("n", Call("fact", <<Dec("n")>>))>>
      [] f = "sub2" -> <<StAssign(Sub("a", "b"))>>
      [] f = "dis" -> <<StAssign(Var("x")), StDisable>>
      [] f = "fails" -> <<StAssign(Var("y")), StFail>>
      [] f = "down" -> <<StRetMul("m", Call("down", <<Dec("m")>>))>>
      [] f = "ping" -> <<StRetMul("p", Call("pong", <<Dec("p")>>))>>
      [] f = "pong" -> <<StRetMul("q", Call("ping", <<Dec("q")>>))>>
      [] f = "d1" -> <<StAssign(Call("d2", <<>>))>>
      [] f = "d2" -> <<StAssign(Call("d3", <<>>))>>
      [] f = "d3" -> <<StAssign(Call("d4", <<>>))>>
      [] f = "d4" -> <<StAssign(Call("d5", <<>>))>>
      [] f = "d5" -> <<StAssign(Lit(1))>>
      [] OTHER -> <<>>

IsTask(f) == f = "tsk"

\* symbol.returnValVar: the variable named after the function.
RetVar(f) == f

\* The subroutine a formal argument symbol is declared in.
Owner(s) ==
    CASE s = "n" -> "fact"
      [] s \in {"a", "b"} -> "sub2"
      [] s = "x" -> "dis"
      [] s = "y" -> "fails"
      [] s = "m" -> "down"
      [] s = "p" -> "ping"
      [] s = "q" -> "pong"
      [] OTHER -> NoSub

\* ------------------------------------------------------------------ symbols

\* A LookupLocation: a compilation unit and a declaration-order index in it.
Units == {"cu1", "cu2"}
LookupLocation(u, i) == [unit |-> u, index |-> i]
NoLocation == LookupLocation("", 0)

\* The lookup location of the call expressions of the design.
CallSite == LookupLocation("cu1", 1)

\* A ValueSymbol. kind: its SymbolKind; isClass: whether its type is a class
\* type; isCHandle: whether its type is chandle; scopes: its enclosing scopes,
\* innermost first (the chain of getParentScope); loc: where it is declared;
\* value: the value a parameter or enum value holds.
ValueSymbol(nm, kind, isClass, isCHandle, scopes, loc, value) ==
    [name |-> nm, kind |-> kind, isClass |-> isClass, isCHandle |-> isCHandle,
     scopes |-> scopes, loc |-> loc, value |-> value]

\* The symbol of a formal argument or return value variable of the design.
Symbol(s) ==
    ValueSymbol(s, "FormalArgument", FALSE, FALSE,
                IF Owner(s) = NoSub THEN <<>> ELSE <<Owner(s)>>,
                LookupLocation("cu1", 0), [ok |-> FALSE, n |-> 0])

\* A SubroutineSymbol as checkConstant reads it. flags: its MethodFlags;
\* void: whether its return type is void; dirs: the directions of its
\* formals; parentKind: the SymbolKind of its parent scope.
SubroutineSymbol(nm, kind, flags, void, dirs, parentKind) ==
    [name |-> nm, subroutineKind |-> kind, flags |-> flags, void |-> void,
     dirs |-> dirs, parentKind |-> parentKind]

\* The SubroutineSymbol of a subroutine of the design.
SymbolOf(f) ==
    SubroutineSymbol(f, IF IsTask(f) THEN "Task" ELSE "Function", {}, IsTask(f),
                     [i \in 1..Len(Formals(f)) |-> "In"], "CompilationUnit")

\* -------------------------------------------------------------- EvalContext

Frame(f, loc) == [sub |-> f, lookupLocation |-> loc, locals |-> <<>>]

FrameSubs(st) == [i \in 1..Len(st) |-> st[i].sub]

\* EvalContext::addDiag: the diagnostic records the frames on the stack.
AddDiag(dg, code, st) == Append(dg, [code |-> code, trace |-> FrameSubs(st)])

\* EvalContext::pushFrame fails once the stack holds maxRecursionDepth frames.
CanPush(st) == Len(st) < maxRecursionDepth

\* EvalContext::createLocal in the top frame.
CreateLocal(st, s, v) ==
    LET fr == Last(st)
        l == [x \in (DOMAIN fr.locals) \cup {s} |->
                 IF x = s THEN v ELSE fr.locals[x]]
    IN  Append(Front(st), [fr EXCEPT !.locals = l])

\* EvalContext::findLocal in the top frame: <<v>>, or <<>> when there is none.
FindLocal(st, s) ==
    IF s \in DOMAIN Last(st).locals THEN <<Last(st).locals[s]>> ELSE <<>>

\* The default value of the (int) return type.
DefaultVal == Val(0)

\* --------------------------------------------------- expression evaluation

\* Symbol::isDeclaredBefore(LookupLocation): <<b>>, or <<>> (no answer) when
\* the two locations are in different compilation units.
IsDeclaredBefore(sym, loc) ==
    IF sym.loc.unit # loc.unit THEN <<>> ELSE <<sym.loc.index < loc.index>>

\* The loop of verifyConstantImpl over the parent scopes of the symbol: the
\* scope it stops at, "null" when it runs off the outermost scope.
RECURSIVE WalkScopes(_, _)
WalkScopes(scopes, subroutine) ==
    IF scopes = <<>> THEN "null"
    ELSE IF scopes[1] = subroutine THEN scopes[1]
    ELSE WalkScopes(Tail(scopes), subroutine)

\* NamedValueVerify with the class type test after the test of the frame.
NamedValueVerifyClassLate(sym, st, se) ==
    LET frame == Last(st) IN
    IF se THEN ""
    ELSE IF frame.sub = NoSub THEN ""
    ELSE IF sym.isClass THEN "ConstEvalClassType"
    ELSE IF sym.kind \notin {"Parameter", "EnumValue"}
    THEN IF WalkScopes(sym.scopes, frame.sub) # frame.sub
         THEN "ConstEvalFunctionIdentifiersMustBeLocal"
         ELSE ""
    ELSE LET compare == IsDeclaredBefore(sym, frame.lookupLocation) IN
         IF compare # <<>> /\ ~compare[1]
         THEN "ConstEvalIdUsedInCEBeforeDecl"
         ELSE ""

\* NamedValueVerify with isDeclaredBefore taken as false when it has no answer.
NamedValueVerifyStrict(sym, st, se) ==
    LET frame == Last(st) IN
    IF se THEN ""
    ELSE IF sym.isClass THEN "ConstEvalClassType"
    ELSE IF frame.sub = NoSub THEN ""
    ELSE IF sym.kind \notin {"Parameter", "EnumValue"}
    THEN IF WalkScopes(sym.scopes, frame.sub) # frame.sub
         THEN "ConstEvalFunctionIdentifiersMustBeLocal"
         ELSE ""
    ELSE LET compare == IsDeclaredBefore(sym, frame.lookupLocation) IN
         IF compare = <<>> \/ ~compare[1]
         THEN "ConstEvalIdUsedInCEBeforeDecl"
         ELSE ""

\* NamedValueExpression::verifyConstantImpl: "" when the reference verifies,
\* else the diagnostic it adds.
NamedValueVerify(sym, st, se) ==
    LET frame == Last(st) IN
    IF se THEN ""
    ELSE IF sym.isClass THEN "ConstEvalClassType"
    ELSE IF frame.sub = NoSub THEN ""
    ELSE IF sym.kind \notin {"Parameter", "EnumValue"}
    THEN IF WalkScopes(sym.scopes, frame.sub) # frame.sub
         THEN "ConstEvalFunctionIdentifiersMustBeLocal"
         ELSE ""
    ELSE LET compare == IsDeclaredBefore(sym, frame.lookupLocation) IN
         IF compare # <<>> /\ ~compare[1]
         THEN "ConstEvalIdUsedInCEBeforeDecl"
         ELSE ""

\* NamedValueEval reading the local of a parameter or enum value too.
NamedValueEvalLocalOnly(sym, st, dg, se) ==
    LET d == NamedValueVerify(sym, st, se) IN
    IF d # "" THEN [v |-> Bad, dg |-> AddDiag(dg, d, st)]
    ELSE IF FindLocal(st, sym.name) # <<>>
    THEN [v |-> FindLocal(st, sym.name)[1], dg |-> dg]
    ELSE [v |-> Bad, dg |-> AddDiag(dg, "ConstEvalNonConstVariable", st)]

\* NamedValueExpression::evalImpl: [v, dg].
NamedValueEval(sym, st, dg, se) ==
    LET d == NamedValueVerify(sym, st, se) IN
    IF d # "" THEN [v |-> Bad, dg |-> AddDiag(dg, d, st)]
    ELSE IF sym.kind \in {"Parameter", "EnumValue"}
    THEN [v |-> sym.value, dg |-> dg]
    ELSE IF FindLocal(st, sym.name) # <<>>
    THEN [v |-> FindLocal(st, sym.name)[1], dg |-> dg]
    ELSE [v |-> Bad, dg |-> AddDiag(dg, "ConstEvalNonConstVariable", st)]

\* NamedValueExpression::evalLValueImpl: [lv, dg]; lv is <<name>>, the local
\* the l-value refers to, or <<>> for a bad l-value.
NamedValueEvalLValue(sym, st, dg, se) ==
    LET d == NamedValueVerify(sym, st, se) IN
    IF d # "" THEN [lv |-> <<>>, dg |-> AddDiag(dg, d, st)]
    ELSE IF FindLocal(st, sym.name) = <<>>
    THEN [lv |-> <<>>, dg |-> AddDiag(dg, "ConstEvalNonConstVariable", st)]
    ELSE [lv |-> <<sym.name>>, dg |-> dg]

\* HierarchicalValueExpression::verifyConstantImpl: [ok, dg].
HierarchicalVerify(sym, st, dg, opts) ==
    [ok |-> FALSE, dg |-> AddDiag(dg, "ConstEvalHierarchicalNameInCE", st)]

\* Expression::eval of an expression that is not a call, in the top frame.
EvalExpr(e, st, dg, se) ==
    CASE e.k = "lit" -> [v |-> Val(e.n), dg |-> dg]
      [] e.k = "var" -> NamedValueEval(Symbol(e.s), st, dg, se)
      [] e.k = "dec" ->
            LET r == NamedValueEval(Symbol(e.s), st, dg, se) IN
            IF r.v.ok THEN [v |-> Val(r.v.n - 1), dg |-> r.dg] ELSE r
      [] e.k = "sub" ->
            LET r == NamedValueEval(Symbol(e.s), st, dg, se) IN
            IF ~r.v.ok THEN r
            ELSE LET q == NamedValueEval(Symbol(e.t), st, r.dg, se) IN
                 IF ~q.v.ok THEN q
                 ELSE [v |-> Val(r.v.n - q.v.n), dg |-> q.dg]
      [] OTHER -> [v |-> Bad, dg |-> dg]

\* The MethodFlags that make a method non-constant as a group.
MethodNotConstant == {"Virtual", "Pure", "Constructor"}

\* CheckConstant with the void test ahead of the flag tests.
CheckConstantVoidFirst(subroutine, se) ==
    IF se THEN ""
    ELSE IF subroutine.void THEN "ConstEvalVoidNotConstant"
    ELSE IF subroutine.subroutineKind = "Task" THEN "ConstEvalTaskNotConstant"
    ELSE IF "DPIImport" \in subroutine.flags THEN "ConstEvalDPINotConstant"
    ELSE IF subroutine.flags \cap MethodNotConstant # {}
    THEN "ConstEvalMethodNotConstant"
    ELSE IF "NotConst" \in subroutine.flags THEN "ConstEvalSubroutineNotConstant"
    ELSE IF \E i \in 1..Len(subroutine.dirs) : subroutine.dirs[i] # "In"
    THEN "ConstEvalFunctionArgDirection"
    ELSE IF subroutine.parentKind = "GenerateBlock"
    THEN "ConstEvalFunctionInsideGenerate"
    ELSE ""

\* CallExpression::checkConstant: "" when the call may be evaluated (it
\* returns true), else the diagnostic it adds (it returns false).
CheckConstant(subroutine, se) ==
    IF se THEN ""
    ELSE IF subroutine.subroutineKind = "Task" THEN "ConstEvalTaskNotConstant"
    ELSE IF "DPIImport" \in subroutine.flags THEN "ConstEvalDPINotConstant"
    ELSE IF subroutine.flags \cap MethodNotConstant # {}
    THEN "ConstEvalMethodNotConstant"
    ELSE IF "NotConst" \in subroutine.flags THEN "ConstEvalSubroutineNotConstant"
    ELSE IF subroutine.void THEN "ConstEvalVoidNotConstant"
    ELSE IF \E i \in 1..Len(subroutine.dirs) : subroutine.dirs[i] # "In"
    THEN "ConstEvalFunctionArgDirection"
    ELSE IF subroutine.parentKind = "GenerateBlock"
    THEN "ConstEvalFunctionInsideGenerate"
    ELSE ""

\* ------------------------------------------------------------ call machine

\* One invocation of CallExpression::evalImpl. base: the depth of the frame
\* stack on entry; pc: the position in evalImpl; args: the argument values
\* evaluated so far; nb: the number of formals bound; bpc: the statement of
\* the body that runs next; er: the body's result status.
NewAct(c, st) ==
    [call |-> c, base |-> Len(st), pc |-> "check", args |-> <<>>, nb |-> 0,
     bpc |-> 1, er |-> ""]

Act == Last(ctl)

Running == ctl # <<>>

Done == ctl = <<>> /\ ret # <<>>

SetAct(a) == ctl' = Append(Front(ctl), a)

\* evalImpl returns v to its caller.
Return(v) == ctl' = Front(ctl) /\ ret' = <<v>>

\* The call expressions handed to the evaluator.
TopCalls ==
    {Call("fact", <<Lit(n)>>) : n \in {-1, 1, 2, 3}}
    \cup {Call("sub2", <<Lit(3), Lit(1)>>),
          Call("sub2", <<Call("fact", <<Lit(2)>>), Lit(1)>>),
          Call("sub2", <<Lit(1), Call("down", <<Lit(2)>>)>>),
          Call("down", <<Lit(2)>>),
          Call("sub2", <<BadE, Lit(1)>>),
          Call("sub2", <<Lit(2), BadE>>),
          Call("sub2", <<Var("a"), Lit(1)>>),
          Call("sub2", <<Call("dis", <<Lit(2)>>), Lit(1)>>),
          MethodCall("sub2", <<Lit(3), Lit(1)>>),
          Call("dis", <<Lit(2)>>),
          Call("fails", <<Lit(2)>>),
          Call("tsk", <<>>)}

Init ==
    /\ scriptEval \in BOOLEAN
    /\ stack = <<Frame(NoSub, NoLocation)>>
    /\ diags = <<>>
    /\ ctl = <<>>
    /\ ret = <<>>
    /\ top = BadE
    /\ formals = <<>>
    /\ argSyntax = <<>>
    /\ call = <<>>
    /\ bindDiags = <<>>
    /\ bindLocals = <<>>
    /\ options = DefaultOptions
    /\ bindCtx = NoBindContext
    /\ enclosing = <<>>
    /\ query = NoQuery
    /\ answer = <<>>
    /\ NoObjects

\* Expression::eval is called on a call expression.
StartCall ==
    /\ ctl = <<>>
    /\ ret = <<>>
    /\ \E c \in TopCalls :
        /\ top' = c
        /\ ctl' = <<NewAct(c, stack)>>
    /\ UNCHANGED <<scriptEval, stack, diags, ret, argVars, semVars>>

\* evalImpl: checkConstant, then the silent failure for a call through a
\* class handle.
CheckStep ==
    /\ Running
    /\ Act.pc = "check"
    /\ LET d == CheckConstant(SymbolOf(Act.call.f), scriptEval) IN
        IF d # ""
        THEN /\ diags' = AddDiag(diags, d, stack)
             /\ Return(Bad)
        ELSE IF Act.call.thisClass
        THEN /\ Return(Bad)
             /\ UNCHANGED diags
        ELSE /\ SetAct([Act EXCEPT !.pc = "args"])
             /\ UNCHANGED <<diags, ret>>
    /\ UNCHANGED <<scriptEval, stack, top, argVars, semVars>>

\* EvalArgStep without the return on a bad argument value.
EvalArgStepNoStop ==
    /\ Running
    /\ Act.pc = "args"
    /\ Len(Act.args) < Len(Act.call.args)
    /\ LET e == Act.call.args[Len(Act.args) + 1] IN
        IF e.k = "call" /\ ret = <<>>
        THEN /\ ctl' = Append(ctl, NewAct(e, stack))
             /\ UNCHANGED <<diags, ret>>
        ELSE LET r == IF e.k = "call" THEN [v |-> ret[1], dg |-> diags]
                      ELSE EvalExpr(e, stack, diags, scriptEval)
             IN  /\ diags' = r.dg
                 /\ SetAct([Act EXCEPT !.args = Append(@, r.v)])
                 /\ ret' = <<>>
    /\ UNCHANGED <<scriptEval, stack, top, argVars, semVars>>

\* evalImpl: the loop that evaluates the arguments in the current frame.
EvalArgStep ==
    /\ Running
    /\ Act.pc = "args"
    /\ Len(Act.args) < Len(Act.call.args)
    /\ LET e == Act.call.args[Len(Act.args) + 1] IN
        IF e.k = "call" /\ ret = <<>>
        THEN \* arg->eval(context) enters the nested call
             /\ ctl' = Append(ctl, NewAct(e, stack))
             /\ UNCHANGED <<diags, ret>>
        ELSE LET r == IF e.k = "call" THEN [v |-> ret[1], dg |-> diags]
                      ELSE EvalExpr(e, stack, diags, scriptEval)
             IN  /\ diags' = r.dg
                 /\ IF ~r.v.ok
                    THEN Return(Bad)
                    ELSE /\ SetAct([Act EXCEPT !.args = Append(@, r.v)])
                         /\ ret' = <<>>
    /\ UNCHANGED <<scriptEval, stack, top, argVars, semVars>>

\* PushFrameStep with the result of pushFrame ignored.
PushFrameStepUnchecked ==
    /\ Running
    /\ Act.pc = "args"
    /\ Len(Act.args) = Len(Act.call.args)
    /\ IF ~CanPush(stack)
       THEN /\ diags' = AddDiag(diags, "ConstEvalExceededMaxCallDepth", stack)
            /\ UNCHANGED stack
       ELSE /\ stack' = Append(stack, Frame(Act.call.f, CallSite))
            /\ UNCHANGED diags
    /\ SetAct([Act EXCEPT !.pc = "bind"])
    /\ UNCHANGED <<scriptEval, ret, top, argVars, semVars>>

\* evalImpl: pushFrame, once every argument has its value.
PushFrameStep ==
    /\ Running
    /\ Act.pc = "args"
    /\ Len(Act.args) = Len(Act.call.args)
    /\ IF ~CanPush(stack)
       THEN /\ diags' = AddDiag(diags, "ConstEvalExceededMaxCallDepth", stack)
            /\ Return(Bad)
            /\ UNCHANGED stack
       ELSE /\ stack' = Append(stack, Frame(Act.call.f, CallSite))
            /\ SetAct([Act EXCEPT !.pc = "bind"])
            /\ UNCHANGED <<diags, ret>>
    /\ UNCHANGED <<scriptEval, top, argVars, semVars>>

\* BindFormalStep taking the argument values from the far end.
BindFormalStepReversed ==
    /\ Running
    /\ Act.pc = "bind"
    /\ Act.nb < Len(Formals(Act.call.f))
    /\ LET i == Act.nb + 1 IN
        /\ stack' = CreateLocal(stack, Formals(Act.call.f)[i],
                                Act.args[Len(Act.args) + 1 - i])
        /\ SetAct([Act EXCEPT !.nb = i])
    /\ UNCHANGED <<scriptEval, diags, ret, top, argVars, semVars>>

\* evalImpl: createLocal(formals[i], args[i]).
BindFormalStep ==
    /\ Running
    /\ Act.pc = "bind"
    /\ Act.nb < Len(Formals(Act.call.f))
    /\ LET i == Act.nb + 1 IN
        /\ stack' = CreateLocal(stack, Formals(Act.call.f)[i], Act.args[i])
        /\ SetAct([Act EXCEPT !.nb = i])
    /\ UNCHANGED <<scriptEval, diags, ret, top, argVars, semVars>>

\* evalImpl: createLocal(symbol.returnValVar), then the body starts.
CreateReturnValStep ==
    /\ Running
    /\ Act.pc = "bind"
    /\ Act.nb = Len(Formals(Act.call.f))
    /\ stack' = CreateLocal(stack, RetVar(Act.call.f), DefaultVal)
    /\ SetAct([Act EXCEPT !.pc = "body"])
    /\ UNCHANGED <<scriptEval, diags, ret, top, argVars, semVars>>

\* symbol.getBody().eval(context): one statement of the body.
BodyStep ==
    /\ Running
    /\ Act.pc = "body"
    /\ LET f == Act.call.f
           Finish(er) == SetAct([Act EXCEPT !.pc = "epilogue", !.er = er])
       IN
        IF Act.bpc > Len(Body(f))
        THEN /\ Finish("Success")
             /\ UNCHANGED <<stack, diags, ret>>
        ELSE LET s == Body(f)[Act.bpc] IN
          CASE s.k = "ifle" ->
                LET c == NamedValueEval(Symbol(s.s), stack, diags, scriptEval)
                    r == EvalExpr(s.e, stack, c.dg, scriptEval)
                IN  IF ~c.v.ok
                    THEN /\ Finish("Fail")
                         /\ diags' = c.dg
                         /\ UNCHANGED <<stack, ret>>
                    ELSE IF c.v.n > s.n
                    THEN /\ SetAct([Act EXCEPT !.bpc = @ + 1])
                         /\ diags' = c.dg
                         /\ UNCHANGED <<stack, ret>>
                    ELSE IF ~r.v.ok
                    THEN /\ Finish("Fail")
                         /\ diags' = r.dg
                         /\ UNCHANGED <<stack, ret>>
                    ELSE /\ stack' = CreateLocal(stack, RetVar(f), r.v)
                         /\ Finish("Return")
                         /\ diags' = r.dg
                         /\ UNCHANGED ret
            [] s.k = "assign" ->
                LET r == EvalExpr(s.e, stack, diags, scriptEval) IN
                    /\ diags' = r.dg
                    /\ UNCHANGED ret
                    /\ IF ~r.v.ok
                       THEN Finish("Fail") /\ UNCHANGED stack
                       ELSE /\ stack' = CreateLocal(stack, RetVar(f), r.v)
                            /\ SetAct([Act EXCEPT !.bpc = @ + 1])
            [] s.k = "retmul" ->
                IF ret = <<>>
                THEN /\ ctl' = Append(ctl, NewAct(s.e, stack))
                     /\ UNCHANGED <<stack, diags, ret>>
                ELSE LET c == NamedValueEval(Symbol(s.s), stack, diags, scriptEval) IN
                     /\ ret' = <<>>
                     /\ diags' = c.dg
                     /\ IF ~c.v.ok \/ ~ret[1].ok
                        THEN Finish("Fail") /\ UNCHANGED stack
                        ELSE /\ stack' = CreateLocal(stack, RetVar(f),
                                                     Val(c.v.n * ret[1].n))
                             /\ Finish("Return")
            [] s.k = "disable" ->
                /\ Finish("Disable")
                /\ UNCHANGED <<stack, diags, ret>>
            [] OTHER ->
                /\ Finish("Fail")
                /\ UNCHANGED <<stack, diags, ret>>
    /\ UNCHANGED <<scriptEval, top, argVars, semVars>>

\* Epilogue that returns the return value local whatever the status.
EpilogueAnyStatus(st, dg, f, er) ==
    LET d == IF er = "Disable" THEN AddDiag(dg, "ConstEvalDisableTarget", st)
             ELSE dg
    IN  [st |-> Front(st), dg |-> d, v |-> FindLocal(st, RetVar(f))[1]]

\* Epilogue that reports the Disable diagnostic after popFrame.
EpilogueDiagAfterPop(st, dg, f, er) ==
    LET d == IF er = "Disable"
             THEN AddDiag(dg, "ConstEvalDisableTarget", Front(st))
             ELSE dg
        result == FindLocal(st, RetVar(f))[1]
    IN  [st |-> Front(st), dg |-> d,
         v |-> IF er \in {"Fail", "Disable"} THEN Bad ELSE result]

\* evalImpl after the body: the Disable diagnostic, the read of the return
\* value local, popFrame, and the result by status. [st, dg, v]
Epilogue(st, dg, f, er) ==
    LET d == IF er = "Disable" THEN AddDiag(dg, "ConstEvalDisableTarget", st)
             ELSE dg
        result == FindLocal(st, RetVar(f))[1]
    IN  [st |-> Front(st), dg |-> d,
         v |-> IF er \in {"Fail", "Disable"} THEN Bad ELSE result]

EpilogueStep ==
    /\ Running
    /\ Act.pc = "epilogue"
    /\ LET r == Epilogue(stack, diags, Act.call.f, Act.er) IN
        /\ stack' = r.st
        /\ diags' = r.dg
        /\ Return(r.v)
    /\ UNCHANGED <<scriptEval, top, argVars, semVars>>

Next ==
    \/ StartCall
    \/ CheckStep
    \/ EvalArgStep
    \/ PushFrameStep
    \/ BindFormalStep
    \/ CreateReturnValStep
    \/ BodyStep
    \/ EpilogueStep

Spec == Init /\ [][Next]_vars

\* The evaluator is single-threaded and runs every call it starts to its end.
FairSpec == Spec /\ WF_vars(Next)

\* ------------------------------------------------- verification machine

\* The class handle a method call goes through.
ThisHandle ==
    ValueSymbol("h", "Variable", TRUE, FALSE, <<>>, LookupLocation("cu1", 0),
                [ok |-> FALSE, n |-> 0])

\* The expressions Statement::verifyConstant visits in a statement, in order.
StmtExprs(s) ==
    CASE s.k = "ifle" -> <<Var(s.s), s.e>>
      [] s.k = "assign" -> <<s.e>>
      [] s.k = "retmul" -> <<Var(s.s), s.e>>
      [] s.k = "disable" -> <<>>
      [] OTHER -> <<BadE>>

\* The expressions the verification of a body visits, in order.
RECURSIVE BodyExprs(_)
BodyExprs(b) == IF b = <<>> THEN <<>> ELSE StmtExprs(Head(b)) \o BodyExprs(Tail(b))

\* Expression::verifyConstant of an expression that is not a call: [ok, dg].
VerifyExpr(e, st, dg, se) ==
    LET named(nm, d0) ==
            LET d == NamedValueVerify(Symbol(nm), st, se) IN
            IF d # "" THEN [ok |-> FALSE, dg |-> AddDiag(d0, d, st)]
            ELSE [ok |-> TRUE, dg |-> d0]
    IN
    CASE e.k = "lit" -> [ok |-> TRUE, dg |-> dg]
      [] e.k \in {"var", "dec"} -> named(e.s, dg)
      [] e.k = "sub" ->
            LET r == named(e.s, dg) IN
            IF ~r.ok THEN r ELSE named(e.t, r.dg)
      [] OTHER -> [ok |-> FALSE, dg |-> dg]

\* One invocation of CallExpression::verifyConstantImpl. base: the depth of
\* the frame stack on entry; pc: the position in it; ai: the arguments
\* verified so far; bi: the expression of the body verified next; result:
\* what the verification of the body returned.
NewVerify(c, st) ==
    [call |-> c, base |-> Len(st), pc |-> "this", ai |-> 0, bi |-> 1,
     result |-> TRUE]

VAct == Last(vctl)

Verifying == vctl # <<>>

SetVAct(a) == vctl' = Append(Front(vctl), a)

\* verifyConstantImpl returns b to its caller.
VReturn(b) == vctl' = Front(vctl) /\ vret' = <<b>>

\* The call expressions handed to the verifier.
VerifyCalls ==
    {Call("fact", <<Lit(2)>>),
     Call("ping", <<Lit(2)>>),
     Call("d1", <<>>),
     Call("sub2", <<Lit(3), Lit(1)>>),
     Call("sub2", <<Call("fact", <<Lit(2)>>), Lit(1)>>),
     Call("sub2", <<Call("tsk", <<>>), Lit(1)>>),
     Call("sub2", <<BadE, Lit(1)>>),
     MethodCall("sub2", <<Lit(3), Lit(1)>>),
     Call("dis", <<Lit(2)>>),
     Call("fails", <<Lit(2)>>),
     Call("tsk", <<>>)}

\* Expression::verifyConstant is called on a call expression.
StartVerify ==
    /\ vctl = <<>>
    /\ vret = <<>>
    /\ ctl = <<>>
    /\ ret = <<>>
    /\ \E c \in VerifyCalls :
        /\ top' = c
        /\ vctl' = <<NewVerify(c, stack)>>
    /\ UNCHANGED <<scriptEval, stack, diags, ctl, ret, argVars, options,
                   bindCtx, enclosing, query, answer, vret, inRecursion,
                   imports, types, scopeVars>>

\* verifyConstantImpl: the class handle of a method call is verified first.
VerifyThisStep ==
    /\ Verifying
    /\ VAct.pc = "this"
    /\ LET d == IF VAct.call.thisClass
                THEN NamedValueVerify(ThisHandle, stack, scriptEval)
                ELSE ""
       IN  IF d # ""
           THEN /\ diags' = AddDiag(diags, d, stack)
                /\ VReturn(FALSE)
           ELSE /\ SetVAct([VAct EXCEPT !.pc = "args"])
                /\ UNCHANGED <<diags, vret>>
    /\ UNCHANGED <<scriptEval, stack, ctl, ret, top, argVars, options,
                   bindCtx, enclosing, query, answer, inRecursion, imports,
                   types, scopeVars>>

\* verifyConstantImpl: the loop that verifies the arguments.
VerifyArgStep ==
    /\ Verifying
    /\ VAct.pc = "args"
    /\ IF VAct.ai = Len(VAct.call.args)
       THEN /\ SetVAct([VAct EXCEPT !.pc = "check"])
            /\ UNCHANGED <<diags, vret>>
       ELSE LET e == VAct.call.args[VAct.ai + 1] IN
            IF e.k = "call" /\ vret = <<>>
            THEN \* arg->verifyConstant(context) enters the nested call
                 /\ vctl' = Append(vctl, NewVerify(e, stack))
                 /\ UNCHANGED <<diags, vret>>
            ELSE LET r == IF e.k = "call" THEN [ok |-> vret[1], dg |-> diags]
                          ELSE VerifyExpr(e, stack, diags, scriptEval)
                 IN  /\ diags' = r.dg
                     /\ IF ~r.ok
                        THEN VReturn(FALSE)
                        ELSE /\ SetVAct([VAct EXCEPT !.ai = @ + 1])
                             /\ vret' = <<>>
    /\ UNCHANGED <<scriptEval, stack, ctl, ret, top, argVars, options,
                   bindCtx, enclosing, query, answer, inRecursion, imports,
                   types, scopeVars>>

\* VerifyCheckStep that checks the body whatever the inRecursion flag says.
VerifyCheckStepNoGuard ==
    /\ Verifying
    /\ VAct.pc = "check"
    /\ LET d == CheckConstant(SymbolOf(VAct.call.f), scriptEval) IN
        IF d # ""
        THEN /\ diags' = AddDiag(diags, d, stack)
             /\ VReturn(FALSE)
             /\ UNCHANGED <<stack, inRecursion>>
        ELSE IF ~CanPush(stack)
        THEN /\ diags' = AddDiag(diags, "ConstEvalExceededMaxCallDepth", stack)
             /\ VReturn(FALSE)
             /\ UNCHANGED <<stack, inRecursion>>
        ELSE /\ inRecursion' = inRecursion \cup {VAct.call}
             /\ stack' = Append(stack, Frame(VAct.call.f, CallSite))
             /\ SetVAct([VAct EXCEPT !.pc = "body"])
             /\ UNCHANGED <<diags, vret>>
    /\ UNCHANGED <<scriptEval, ctl, ret, top, argVars, options, bindCtx,
                   enclosing, query, answer, imports, types, scopeVars>>

\* verifyConstantImpl: checkConstant, the inRecursion test, the flag set
\* under its scope guard, and pushFrame (a failed pushFrame returns, and the
\* guard clears the flag).
VerifyCheckStep ==
    /\ Verifying
    /\ VAct.pc = "check"
    /\ LET d == CheckConstant(SymbolOf(VAct.call.f), scriptEval) IN
        IF d # ""
        THEN /\ diags' = AddDiag(diags, d, stack)
             /\ VReturn(FALSE)
             /\ UNCHANGED <<stack, inRecursion>>
        ELSE IF VAct.call \in inRecursion
        THEN /\ VReturn(TRUE)
             /\ UNCHANGED <<stack, diags, inRecursion>>
        ELSE IF ~CanPush(stack)
        THEN /\ diags' = AddDiag(diags, "ConstEvalExceededMaxCallDepth", stack)
             /\ VReturn(FALSE)
             /\ UNCHANGED <<stack, inRecursion>>
        ELSE /\ inRecursion' = inRecursion \cup {VAct.call}
             /\ stack' = Append(stack, Frame(VAct.call.f, CallSite))
             /\ SetVAct([VAct EXCEPT !.pc = "body"])
             /\ UNCHANGED <<diags, vret>>
    /\ UNCHANGED <<scriptEval, ctl, ret, top, argVars, options, bindCtx,
                   enclosing, query, answer, imports, types, scopeVars>>

\* symbol.getBody().verifyConstant(context): one expression of the body.
VerifyBodyStep ==
    /\ Verifying
    /\ VAct.pc = "body"
    /\ LET es == BodyExprs(Body(VAct.call.f)) IN
       IF VAct.bi > Len(es)
       THEN /\ SetVAct([VAct EXCEPT !.pc = "pop", !.result = TRUE])
            /\ UNCHANGED <<diags, vret>>
       ELSE LET e == es[VAct.bi] IN
            IF e.k = "call" /\ vret = <<>>
            THEN /\ vctl' = Append(vctl, NewVerify(e, stack))
                 /\ UNCHANGED <<diags, vret>>
            ELSE LET r == IF e.k = "call" THEN [ok |-> vret[1], dg |-> diags]
                          ELSE VerifyExpr(e, stack, diags, scriptEval)
                 IN  /\ diags' = r.dg
                     /\ vret' = <<>>
                     /\ IF ~r.ok
                        THEN SetVAct([VAct EXCEPT !.pc = "pop",
                                                  !.result = FALSE])
                        ELSE SetVAct([VAct EXCEPT !.bi = @ + 1])
    /\ UNCHANGED <<scriptEval, stack, ctl, ret, top, argVars, options,
                   bindCtx, enclosing, query, answer, inRecursion, imports,
                   types, scopeVars>>

\* VerifyPopStep that pops the frame of a body that verified only.
VerifyPopStepOnSuccess ==
    /\ Verifying
    /\ VAct.pc = "pop"
    /\ stack' = IF VAct.result THEN Front(stack) ELSE stack
    /\ inRecursion' = inRecursion \ {VAct.call}
    /\ VReturn(VAct.result)
    /\ UNCHANGED <<scriptEval, diags, ctl, ret, top, argVars, options,
                   bindCtx, enclosing, query, answer, imports, types, scopeVars>>

\* verifyConstantImpl after the body: popFrame, the return of the result,
\* and the scope guard clearing the flag.
VerifyPopStep ==
    /\ Verifying
    /\ VAct.pc = "pop"
    /\ stack' = Front(stack)
    /\ inRecursion' = inRecursion \ {VAct.call}
    /\ VReturn(VAct.result)
    /\ UNCHANGED <<scriptEval, diags, ctl, ret, top, argVars, options,
                   bindCtx, enclosing, query, answer, imports, types, scopeVars>>

\* The evaluator and the verifier share one thread: a call is evaluated
\* only while no verification is in progress.
StartEval == vctl = <<>> /\ StartCall

NextVerify ==
    \/ StartEval
    \/ CheckStep
    \/ EvalArgStep
    \/ PushFrameStep
    \/ BindFormalStep
    \/ CreateReturnValStep
    \/ BodyStep
    \/ EpilogueStep
    \/ StartVerify
    \/ VerifyThisStep
    \/ VerifyArgStep
    \/ VerifyCheckStep
    \/ VerifyBodyStep
    \/ VerifyPopStep

SpecVerify == Init /\ [][NextVerify]_vars

\* Every verification and evaluation that starts runs to its end.
FairSpecVerify == SpecVerify /\ WF_vars(NextVerify)

\* ------------------------------------------------------ argument matching

\* The callee's formals: the i-th is named FormalNames[i]; init says whether
\* it has a default initializer.
FormalNames == <<"a", "b", "c", "d">>

FormalLists ==
    UNION {{[i \in 1..n |-> [name |-> FormalNames[i], init |-> ini[i]]] :
              ini \in [1..n -> BOOLEAN]} : n \in 0..MaxFormals}

\* The arguments of a call. An OrderedArgument carries an expression that
\* binds well ("ok") or binds to a bad expression ("bad"); a NamedArgument
\* carries a name (empty when the parser found none) and an expression or
\* none; an EmptyArgument carries nothing.
OrderedArg(x) == [kind |-> "OrderedArgument", name |-> "", expr |-> x]
EmptyArg == [kind |-> "EmptyArgument", name |-> "", expr |-> "none"]
NamedArg(nm, x) == [kind |-> "NamedArgument", name |-> nm, expr |-> x]

ArgSyntaxes ==
    {OrderedArg("ok"), OrderedArg("bad"), EmptyArg, NamedArg("", "ok"),
     NamedArg("a", "bad")}
    \cup {NamedArg(nm, x) : nm \in {"a", "b", "z"}, x \in {"none", "ok"}}

ArgLists == UNION {[1..n -> ArgSyntaxes] : n \in 0..MaxArgs}

\* A diagnostic of the bind context. at: the argument it is located at (0:
\* the range of the whole call); name, n1, n2: its operands; note: the
\* argument its NotePreviousUsage points at (0: no note).
BindDiag(code, at, name, n1, n2, note) ==
    [code |-> code, at |-> at, name |-> name, n1 |-> n1, n2 |-> n2,
     note |-> note]

\* A bound argument expression. from: "arg" bound from the argument at, or
\* "init" the formal's default initializer.
NoExpr == [from |-> "none", at |-> 0, formal |-> "", bad |-> FALSE]

\* formal->getInitializer()
Initializer(formal) ==
    IF formal.init
    THEN [from |-> "init", at |-> 0, formal |-> formal.name, bad |-> FALSE]
    ELSE NoExpr

\* Expression::bindArgument of the argument at index at for the formal.
BindArgument(formal, at, x) ==
    [from |-> "arg", at |-> at, formal |-> formal.name, bad |-> (x = "bad")]

\* namedArgs.emplace(name, ...)
MapPut(m, nm, i) ==
    [x \in (DOMAIN m) \cup {nm} |-> IF x = nm THEN i ELSE m[x]]

\* CollectArgs that accepts an ordered argument after a named one.
RECURSIVE CollectArgsAnyOrder(_, _, _)
CollectArgsAnyOrder(as, i, c) ==
    IF i > Len(as) THEN c
    ELSE IF as[i].kind = "NamedArgument"
    THEN IF as[i].name = "" THEN CollectArgsAnyOrder(as, i + 1, c)
         ELSE IF as[i].name \in DOMAIN c.named
         THEN CollectArgsAnyOrder(as, i + 1,
                [c EXCEPT !.dg = Append(@, BindDiag("DuplicateArgAssignment",
                                     i, as[i].name, 0, 0, c.named[as[i].name]))])
         ELSE CollectArgsAnyOrder(as, i + 1,
                [c EXCEPT !.named = MapPut(@, as[i].name, i)])
    ELSE CollectArgsAnyOrder(as, i + 1, [c EXCEPT !.ordered = Append(@, i)])

\* fromArgs, the collection loop from argument i on. c: [mixed, ordered,
\* named, dg]; ordered lists the ordered and empty arguments, named maps each
\* name to the first named argument that has it; mixed: the loop returned.
RECURSIVE CollectArgs(_, _, _)
CollectArgs(as, i, c) ==
    IF i > Len(as) THEN c
    ELSE IF as[i].kind = "NamedArgument"
    THEN IF as[i].name = "" THEN CollectArgs(as, i + 1, c)
         ELSE IF as[i].name \in DOMAIN c.named
         THEN CollectArgs(as, i + 1,
                [c EXCEPT !.dg = Append(@, BindDiag("DuplicateArgAssignment",
                                     i, as[i].name, 0, 0, c.named[as[i].name]))])
         ELSE CollectArgs(as, i + 1,
                [c EXCEPT !.named = MapPut(@, as[i].name, i)])
    ELSE IF DOMAIN c.named # {}
    THEN [c EXCEPT !.mixed = TRUE,
                   !.dg = Append(@, BindDiag("MixingOrderedAndNamedArgs",
                                             i, "", 0, 0, 0))]
    ELSE CollectArgs(as, i + 1, [c EXCEPT !.ordered = Append(@, i)])

\* CheckEmpty with the test of the initializer inverted.
CheckEmptyInverted(dg, expr, ai, formal) ==
    IF expr # NoExpr
    THEN Append(dg, BindDiag("ArgCannotBeEmpty", ai, formal.name, 0, 0, 0))
    ELSE dg

\* fromArgs: an empty argument is allowed as long as a default is provided.
CheckEmpty(dg, expr, ai, formal) ==
    IF expr = NoExpr
    THEN Append(dg, BindDiag("ArgCannotBeEmpty", ai, formal.name, 0, 0, 0))
    ELSE dg

\* TooFewDiag with its two operands in the other order.
TooFewDiagSwapped(fs, c) ==
    BindDiag("TooFewArguments", 0, "", Len(c.ordered), Len(fs), 0)

\* fromArgs: the TooFewArguments diagnostic.
TooFewDiag(fs, c) ==
    BindDiag("TooFewArguments", 0, "", Len(fs), Len(c.ordered), 0)

\* AppendBound that drops a formal without an expression and goes on.
AppendBoundSkipMissing(b, expr) ==
    IF expr = NoExpr THEN b
    ELSE [b EXCEPT !.bad = @ \/ expr.bad, !.boundArgs = Append(@, expr)]

\* fromArgs, the end of one round of the formals loop.
AppendBound(b, expr) ==
    IF expr = NoExpr THEN [b EXCEPT !.bad = TRUE]
    ELSE [b EXCEPT !.bad = @ \/ expr.bad, !.boundArgs = Append(@, expr)]

\* fromArgs, the formals loop from formal k on. b: [bad, orderedIndex,
\* boundArgs, used, dg, match]; used: the named arguments marked used; match:
\* for each formal the loop has visited, how it was matched (via) and to
\* which argument (at).
RECURSIVE BindFormals(_, _, _, _, _)
BindFormals(fs, as, c, k, b) ==
    IF k > Len(fs) THEN b
    ELSE IF b.orderedIndex < Len(c.ordered)
    THEN LET ai == c.ordered[b.orderedIndex + 1]
             empty == as[ai].kind = "EmptyArgument"
             expr == IF empty THEN Initializer(fs[k])
                     ELSE BindArgument(fs[k], ai, as[ai].expr)
             d1 == IF empty THEN CheckEmpty(b.dg, expr, ai, fs[k]) ELSE b.dg
             dup == fs[k].name \in DOMAIN c.named
             d2 == IF dup
                   THEN Append(d1, BindDiag("DuplicateArgAssignment",
                                     c.named[fs[k].name], fs[k].name, 0, 0, ai))
                   ELSE d1
             b1 == [b EXCEPT !.orderedIndex = @ + 1,
                             !.dg = d2,
                             !.used = IF dup THEN @ \cup {fs[k].name} ELSE @,
                             !.bad = @ \/ dup,
                             !.match = Append(@, [via |-> "ordered", at |-> ai])]
         IN  BindFormals(fs, as, c, k + 1, AppendBound(b1, expr))
    ELSE IF fs[k].name \in DOMAIN c.named
    THEN LET ai == c.named[fs[k].name]
             empty == as[ai].expr = "none"
             expr == IF empty THEN Initializer(fs[k])
                     ELSE BindArgument(fs[k], ai, as[ai].expr)
             d1 == IF empty THEN CheckEmpty(b.dg, expr, ai, fs[k]) ELSE b.dg
             b1 == [b EXCEPT !.dg = d1,
                             !.used = @ \cup {fs[k].name},
                             !.match = Append(@, [via |-> "named", at |-> ai])]
         IN  BindFormals(fs, as, c, k + 1, AppendBound(b1, expr))
    ELSE LET expr == Initializer(fs[k])
             b1 == [b EXCEPT !.match = Append(@, [via |-> "none", at |-> 0])]
         IN  IF expr = NoExpr /\ DOMAIN c.named = {}
             THEN \* TooFewArguments, and the loop breaks
                  [b1 EXCEPT !.bad = TRUE,
                             !.dg = Append(@, TooFewDiag(fs, c))]
             ELSE IF expr = NoExpr
             THEN BindFormals(fs, as, c, k + 1,
                    AppendBound([b1 EXCEPT !.dg = Append(@,
                        BindDiag("UnconnectedArg", 0, fs[k].name, 0, 0, 0))],
                      expr))
             ELSE BindFormals(fs, as, c, k + 1, AppendBound(b1, expr))

\* CheckTooMany that reports the surplus and leaves the call good.
CheckTooManyNotBad(fs, c, b) ==
    IF b.orderedIndex < Len(c.ordered)
    THEN [b EXCEPT !.dg = Append(@, BindDiag("TooManyArguments", 0, "",
                                             Len(fs), Len(c.ordered), 0))]
    ELSE b

\* fromArgs, the check for surplus ordered arguments.
CheckTooMany(fs, c, b) ==
    IF b.orderedIndex < Len(c.ordered)
    THEN [b EXCEPT !.bad = TRUE,
                   !.dg = Append(@, BindDiag("TooManyArguments", 0, "",
                                             Len(fs), Len(c.ordered), 0))]
    ELSE b

\* CheckUnused that stops at the first name it reports.
CheckUnusedFirstOnly(as, c, ord, b) ==
    IF ord = <<>> THEN b
    ELSE LET un == {i \in 1..Len(ord) : ord[i] \notin b.used} IN
         IF un = {} THEN b
         ELSE LET nm == ord[CHOOSE i \in un : \A j \in un : i <= j] IN
              [b EXCEPT !.bad = TRUE,
                        !.dg = Append(@, BindDiag("ArgDoesNotExist",
                                                  c.named[nm], nm, 0, 0, 0))]

\* fromArgs, the loop over namedArgs, which visits the names in the order ord.
RECURSIVE CheckUnused(_, _, _, _)
CheckUnused(as, c, ord, b) ==
    IF ord = <<>> THEN b
    ELSE IF Head(ord) \notin b.used
    THEN CheckUnused(as, c, Tail(ord),
           [b EXCEPT !.bad = TRUE,
                     !.dg = Append(@, BindDiag("ArgDoesNotExist",
                                      c.named[Head(ord)], Head(ord), 0, 0, 0))])
    ELSE CheckUnused(as, c, Tail(ord), b)

\* The orders in which a hash map may hold the names of S.
Orders(S) ==
    {o \in [1..Cardinality(S) -> S] : \A x \in S : \E i \in DOMAIN o : o[i] = x}

\* CallExpression::fromArgs: [e, dg, locals]. e: the returned expression, bad
\* or not, with its bound arguments (child: badExpr wraps the call expression
\* rather than nothing).
FromArgs(fs, as, ord) ==
    LET c == CollectArgs(as, 1, [mixed |-> FALSE, ordered |-> <<>>,
                                 named |-> <<>>, dg |-> <<>>])
        b0 == [bad |-> FALSE, orderedIndex |-> 0, boundArgs |-> <<>>,
               used |-> {}, dg |-> c.dg, match |-> <<>>]
        b == CheckUnused(as, c, ord,
                CheckTooMany(fs, c, BindFormals(fs, as, c, 1, b0)))
    IN  IF c.mixed
        THEN [e |-> [bad |-> TRUE, child |-> FALSE, args |-> <<>>],
              dg |-> c.dg,
              locals |-> [orderedArgs |-> c.ordered, namedArgs |-> c.named,
                          orderedIndex |-> 0, used |-> {}, match |-> <<>>,
                          returned |-> "collect"]]
        ELSE [e |-> [bad |-> b.bad, child |-> TRUE, args |-> b.boundArgs],
              dg |-> b.dg,
              locals |-> [orderedArgs |-> c.ordered, namedArgs |-> c.named,
                          orderedIndex |-> b.orderedIndex, used |-> b.used,
                          match |-> b.match, returned |-> "end"]]

\* namedArgs as the collection loop leaves it.
NamedArgsOf(as) ==
    CollectArgs(as, 1, [mixed |-> FALSE, ordered |-> <<>>, named |-> <<>>,
                        dg |-> <<>>]).named

InitArgs ==
    /\ scriptEval = FALSE
    /\ stack = <<Frame(NoSub, NoLocation)>>
    /\ diags = <<>>
    /\ ctl = <<>>
    /\ ret = <<>>
    /\ top = BadE
    /\ formals \in FormalLists
    /\ argSyntax \in ArgLists
    /\ call = <<>>
    /\ bindDiags = <<>>
    /\ bindLocals = <<>>
    /\ options = DefaultOptions
    /\ bindCtx = NoBindContext
    /\ enclosing = <<>>
    /\ query = NoQuery
    /\ answer = <<>>
    /\ NoObjects

\* The binder binds the call.
FromArgsCall ==
    /\ call = <<>>
    /\ \E ord \in Orders(DOMAIN NamedArgsOf(argSyntax)) :
        LET r == FromArgs(formals, argSyntax, ord) IN
        /\ call' = <<r.e>>
        /\ bindDiags' = r.dg
        /\ bindLocals' = <<r.locals>>
    /\ UNCHANGED <<evalVars, formals, argSyntax, semVars>>

NextArgs == FromArgsCall

SpecArgs == InitArgs /\ [][NextArgs]_vars

\* ------------------------------------------------- constant verification

\* The subroutine symbols checkConstant is asked about.
MethodFlags == {"DPIImport", "Virtual", "Pure", "Constructor", "NotConst"}
Directions == {"In", "Out"}
DirLists == UNION {[1..n -> Directions] : n \in 0..MaxFormals}
Subroutines ==
    {SubroutineSymbol("f", k, fl, v, d, pk) :
        k \in {"Function", "Task"}, fl \in SUBSET MethodFlags, v \in BOOLEAN,
        d \in DirLists, pk \in {"CompilationUnit", "GenerateBlock"}}

\* The value symbols a named value expression refers to. The type of an enum
\* value is its enum type, never a class type.
ScopeNames == {"sub2", "blk", "top"}
ScopeChains == UNION {[1..n -> ScopeNames] : n \in 0..MaxScopeDepth}
LookupLocations == {LookupLocation(u, i) : u \in Units, i \in 0..MaxIndex}
ValueSymbols ==
    {y \in {ValueSymbol("v", k, c, FALSE, sc, l, Val(MaxIndex)) :
               k \in {"Parameter", "EnumValue", "Variable"}, c \in BOOLEAN,
               sc \in ScopeChains, l \in LookupLocations} :
        ~(y.kind = "EnumValue" /\ y.isClass)}

\* The evaluation contexts the routines are entered in: at the top level, or
\* inside a call of sub2 made from some lookup location, the symbol "v"
\* having a local in the top frame or not.
ConstStacks ==
    {<<Frame(NoSub, NoLocation)>>,
     CreateLocal(<<Frame(NoSub, NoLocation)>>, "v", Val(1))}
    \cup {<<Frame(NoSub, NoLocation), Frame("sub2", l)>> :
            l \in LookupLocations}
    \cup {CreateLocal(<<Frame(NoSub, NoLocation), Frame("sub2", l)>>,
                      "v", Val(1)) : l \in LookupLocations}

InitConst ==
    /\ scriptEval \in BOOLEAN
    /\ stack \in ConstStacks
    /\ diags = <<>>
    /\ ctl = <<>>
    /\ ret = <<>>
    /\ top = BadE
    /\ formals = <<>>
    /\ argSyntax = <<>>
    /\ call = <<>>
    /\ bindDiags = <<>>
    /\ bindLocals = <<>>
    /\ options \in {CompilationOptions(h, "Typ") : h \in BOOLEAN}
    /\ bindCtx = NoBindContext
    /\ enclosing = <<>>
    /\ query = NoQuery
    /\ answer = <<>>
    /\ NoObjects

\* CallExpression::checkConstant is called on a subroutine.
CheckConstantCall ==
    /\ answer = <<>>
    /\ \E sub \in Subroutines :
        LET d == CheckConstant(sub, scriptEval) IN
        /\ query' = [op |-> "checkConstant", sub |-> sub]
        /\ diags' = IF d = "" THEN diags ELSE AddDiag(diags, d, stack)
        /\ answer' = <<[ok |-> d = ""]>>
    /\ UNCHANGED <<scriptEval, stack, ctl, ret, top, argVars, options,
                   bindCtx, enclosing, objVars>>

\* verifyConstant is called on a NamedValueExpression.
VerifyNamedValue ==
    /\ answer = <<>>
    /\ \E sym \in ValueSymbols :
        LET d == NamedValueVerify(sym, stack, scriptEval) IN
        /\ query' = [op |-> "verifyNamed", sym |-> sym]
        /\ diags' = IF d = "" THEN diags ELSE AddDiag(diags, d, stack)
        /\ answer' = <<[ok |-> d = ""]>>
    /\ UNCHANGED <<scriptEval, stack, ctl, ret, top, argVars, options,
                   bindCtx, enclosing, objVars>>

\* eval is called on a NamedValueExpression.
EvalNamedValue ==
    /\ answer = <<>>
    /\ \E sym \in ValueSymbols :
        LET r == NamedValueEval(sym, stack, diags, scriptEval) IN
        /\ query' = [op |-> "evalNamed", sym |-> sym]
        /\ diags' = r.dg
        /\ answer' = <<[v |-> r.v]>>
    /\ UNCHANGED <<scriptEval, stack, ctl, ret, top, argVars, options,
                   bindCtx, enclosing, objVars>>

\* evalLValue is called on a NamedValueExpression.
EvalLValueNamedValue ==
    /\ answer = <<>>
    /\ \E sym \in ValueSymbols :
        LET r == NamedValueEvalLValue(sym, stack, diags, scriptEval) IN
        /\ query' = [op |-> "evalLValueNamed", sym |-> sym]
        /\ diags' = r.dg
        /\ answer' = <<[lv |-> r.lv]>>
    /\ UNCHANGED <<scriptEval, stack, ctl, ret, top, argVars, options,
                   bindCtx, enclosing, objVars>>

\* verifyConstant is called on a HierarchicalValueExpression.
VerifyHierarchicalValue ==
    /\ answer = <<>>
    /\ \E sym \in ValueSymbols :
        LET r == HierarchicalVerify(sym, stack, diags, options) IN
        /\ query' = [op |-> "verifyHierarchical", sym |-> sym]
        /\ diags' = r.dg
        /\ answer' = <<[ok |-> r.ok]>>
    /\ UNCHANGED <<scriptEval, stack, ctl, ret, top, argVars, options,
                   bindCtx, enclosing, objVars>>

NextConst ==
    \/ CheckConstantCall
    \/ VerifyNamedValue
    \/ EvalNamedValue
    \/ EvalLValueNamedValue
    \/ VerifyHierarchicalValue

SpecConst == InitConst /\ [][NextConst]_vars

\* ---------------------------------------------------------------- binding

\* A scope of the design as the binder walks it: the SymbolKind of the symbol
\* that owns it, its name, and for a subroutine whether it is static.
Scope(kind, nm, static) == [kind |-> kind, name |-> nm, static |-> static]

\* The classes of the design:
\*   class Base; class Inner; ... endclass ... endclass
\*   class Derived extends Base; class Other;
ClassNames == {"Base", "Derived", "Other", "Inner"}
BaseClass(c) == IF c = "Derived" THEN "Base" ELSE "null"
ModuleScope == Scope("Module", "top", FALSE)
ClassScope(c) == Scope("ClassType", c, FALSE)

\* The scopes that enclose a class, innermost first.
OuterScopes(c) ==
    IF c = "Inner" THEN <<ClassScope("Base"), ModuleScope>> ELSE <<ModuleScope>>

\* Type::isAssignmentCompatible between class types: a handle of the source
\* class can be assigned to a handle of the target class.
IsAssignmentCompatible(targetType, sourceType) ==
    sourceType = targetType \/ BaseClass(sourceType) = targetType

\* A BindContext: the chain of scopes from context.scope outward, the
\* BindFlags, and the head of the chain of active iterators (<<>>: none).
BindContext(scope, flags, firstIterator) ==
    [scope |-> scope, flags |-> flags, firstIterator |-> firstIterator]

\* The expression a binding routine returns. kind "Invalid": badExpr.
Expr(kind, bad) == [kind |-> kind, bad |-> bad]
BadExpr == Expr("Invalid", TRUE)

\* A diagnostic of the bind context with at most two operands.
Diag(code, a, b) == BindDiag(code, 0, a, 0, 0, b)

\* getParentClass without the memory of a static subroutine on the way.
RECURSIVE GetParentClassNoStatic(_, _)
GetParentClassNoStatic(scope, inStatic) ==
    IF scope = <<>> THEN [parent |-> "null", inStatic |-> FALSE]
    ELSE IF scope[1].kind = "Subroutine"
    THEN GetParentClassNoStatic(Tail(scope), inStatic)
    ELSE IF scope[1].kind = "ClassType"
    THEN [parent |-> scope[1].name, inStatic |-> inStatic]
    ELSE IF scope[1].kind # "StatementBlock"
    THEN [parent |-> "null", inStatic |-> FALSE]
    ELSE GetParentClassNoStatic(Tail(scope), inStatic)

\* getParentClass: the class that is the source of the lookup ("null" when the
\* scope is not in a class) and whether a static method was passed on the way.
RECURSIVE GetParentClass(_, _)
GetParentClass(scope, inStatic) ==
    IF scope = <<>> THEN [parent |-> "null", inStatic |-> FALSE]
    ELSE IF scope[1].kind = "Subroutine"
    THEN GetParentClass(Tail(scope), inStatic \/ scope[1].static)
    ELSE IF scope[1].kind = "ClassType"
    THEN [parent |-> scope[1].name, inStatic |-> inStatic]
    ELSE IF scope[1].kind # "StatementBlock"
    THEN [parent |-> "null", inStatic |-> FALSE]
    ELSE GetParentClass(Tail(scope), inStatic)

\* isAccessibleFrom: whether the target symbol is accessible from the class
\* scope sourceScope.
IsAccessibleFrom(target, sourceScope) ==
    IF target.parent.kind = "ClassType" /\ target.parent.name = sourceScope
    THEN TRUE
    ELSE IF target.parent.kind # "ClassType" THEN FALSE
    ELSE IsAssignmentCompatible(target.parent.name, sourceScope)

\* A symbol a name resolved to. isValue: Symbol::isValue; lifetime: the
\* VariableLifetime of a variable; isCHandle: its type is chandle; parent:
\* the scope it is declared in.
VariableKinds == {"Variable", "FormalArgument", "ClassProperty"}
Member(nm, kind, isValue, lifetime, isCHandle, parent) ==
    [name |-> nm, kind |-> kind, isValue |-> isValue, lifetime |-> lifetime,
     isCHandle |-> isCHandle, parent |-> parent]

\* ValueExpressionBase::fromSymbol: [e, dg].
FromSymbol(context, symbol, isHierarchical) ==
    IF ~symbol.isValue
    THEN [e |-> BadExpr, dg |-> <<Diag("NotAValue", symbol.name, "")>>]
    ELSE IF symbol.kind \in VariableKinds /\ symbol.lifetime = "Automatic"
            /\ symbol.kind = "ClassProperty"
    THEN LET pc == GetParentClass(context.scope, FALSE) IN
         IF pc.parent # "null" /\ ~IsAccessibleFrom(symbol, pc.parent)
         THEN [e |-> BadExpr,
               dg |-> <<Diag("NestedNonStaticClassProperty", symbol.name,
                             pc.parent)>>]
         ELSE IF pc.parent = "null" \/ pc.inStatic
                 \/ "StaticInitializer" \in context.flags
         THEN [e |-> BadExpr,
               dg |-> <<Diag("NonStaticClassProperty", symbol.name, "")>>]
         ELSE [e |-> Expr(IF isHierarchical THEN "HierarchicalValue"
                          ELSE "NamedValue", FALSE), dg |-> <<>>]
    ELSE IF symbol.kind \in VariableKinds /\ symbol.lifetime = "Automatic"
            /\ "StaticInitializer" \in context.flags
    THEN [e |-> BadExpr, dg |-> <<Diag("AutoFromStaticInit", symbol.name, "")>>]
    ELSE [e |-> Expr(IF isHierarchical THEN "HierarchicalValue"
                     ELSE "NamedValue", FALSE), dg |-> <<>>]

\* A user subroutine a call resolved to. static: MethodFlags::Static;
\* parent: the scope it is declared in; void: its return type is void.
Method(nm, static, parent, void) ==
    [name |-> nm, static |-> static, parent |-> parent, void |-> void]

\* CallExpression::fromLookup for a user subroutine without formals: [e, dg].
\* thisClass: the call is made through a class handle; syntax: the
\* invocation has parentheses; withClause: a with-clause follows.
FromLookup(context, sub, thisClass, syntax, withClause) ==
    LET pc == GetParentClass(context.scope, FALSE)
        checked == ~sub.static /\ ~thisClass /\ sub.parent.kind = "ClassType"
    IN
    IF checked /\ pc.parent # "null" /\ ~IsAccessibleFrom(sub, pc.parent)
    THEN [e |-> BadExpr,
          dg |-> <<Diag("NestedNonStaticClassMethod", pc.parent, "")>>]
    ELSE IF checked /\ (pc.parent = "null" \/ pc.inStatic
                        \/ "StaticInitializer" \in context.flags)
    THEN [e |-> BadExpr, dg |-> <<Diag("NonStaticClassMethod", "", "")>>]
    ELSE IF withClause
    THEN [e |-> BadExpr, dg |-> <<Diag("WithClauseNotAllowed", sub.name, "")>>]
    ELSE IF ~syntax /\ sub.parent.kind # "ClassType" /\ ~sub.void
    THEN [e |-> BadExpr,
          dg |-> <<Diag("MissingInvocationParens", sub.name, "")>>]
    ELSE LET r == FromArgs(<<>>, <<>>, <<>>) IN
         [e |-> Expr(IF r.e.child THEN "Call" ELSE "Invalid", r.e.bad),
          dg |-> r.dg]

\* BindContext::requireAssignable on a variable: [ok, dg]. Its verdict is
\* decided outside this file; verdict is what it returns.
RequireAssignable(context, symbol, isNonBlocking, verdict) ==
    [ok |-> verdict,
     dg |-> IF verdict THEN <<>> ELSE <<Diag("NotAssignable", symbol.name, "")>>]

\* VerifyAssignable refusing a net in every context.
VerifyAssignableNetAlways(context, symbol, isNonBlocking, verdict) ==
    IF symbol.kind \in {"Parameter", "EnumValue"}
    THEN [ok |-> FALSE,
          dg |-> <<Diag("ExpressionNotAssignable", symbol.name,
                        "NoteDeclarationHere")>>]
    ELSE IF symbol.kind = "Net"
    THEN [ok |-> FALSE, dg |-> <<Diag("AssignToNet", symbol.name, "")>>]
    ELSE IF "ProceduralStatement" \notin context.flags /\ symbol.isCHandle
    THEN [ok |-> FALSE, dg |-> <<Diag("AssignToCHandle", symbol.name, "")>>]
    ELSE IF symbol.kind \in VariableKinds
    THEN RequireAssignable(context, symbol, isNonBlocking, verdict)
    ELSE [ok |-> TRUE, dg |-> <<>>]

\* ValueExpressionBase::verifyAssignableImpl: [ok, dg].
VerifyAssignable(context, symbol, isNonBlocking, verdict) ==
    IF symbol.kind \in {"Parameter", "EnumValue"}
    THEN [ok |-> FALSE,
          dg |-> <<Diag("ExpressionNotAssignable", symbol.name,
                        "NoteDeclarationHere")>>]
    ELSE IF "ProceduralStatement" \in context.flags /\ symbol.kind = "Net"
    THEN [ok |-> FALSE, dg |-> <<Diag("AssignToNet", symbol.name, "")>>]
    ELSE IF "ProceduralStatement" \notin context.flags /\ symbol.isCHandle
    THEN [ok |-> FALSE, dg |-> <<Diag("AssignToCHandle", symbol.name, "")>>]
    ELSE IF symbol.kind \in VariableKinds
    THEN RequireAssignable(context, symbol, isNonBlocking, verdict)
    ELSE [ok |-> TRUE, dg |-> <<>>]

\* One branch of a min:typ:max expression as written. bad: it binds to a bad
\* expression; const: it verifies as constant (and then evaluates to value).
BranchSyntax(type, width, value, bad, const) ==
    [type |-> type, width |-> width, value |-> value, bad |-> bad,
     const |-> const]

\* Expression::create of a branch with extra bind flags: the bound expression
\* remembers the flags it was bound with.
Create(syntax, context, extraFlags) ==
    [type |-> syntax.type, width |-> syntax.width, value |-> syntax.value,
     bad |-> syntax.bad, const |-> syntax.const, flags |-> extraFlags]

\* The branch the second switch of fromSyntax selects.
SelectedBranch(minTypMax) ==
    CASE minTypMax = "Min" -> "min"
      [] minTypMax = "Typ" -> "typ"
      [] minTypMax = "Max" -> "max"

\* MinTypMaxFromSyntax selecting the typ branch whatever the option.
MinTypMaxFromSyntaxAlwaysTyp(opts, syntax, context) ==
    LET flagsOf(m) == IF opts.minTypMax = m THEN {}
                      ELSE {"UnevaluatedBranch"}
        min == Create(syntax.min, context, flagsOf("Min"))
        typ == Create(syntax.typ, context, flagsOf("Typ"))
        max == Create(syntax.max, context, flagsOf("Max"))
    IN  [kind |-> "MinTypMax", bad |-> min.bad \/ typ.bad \/ max.bad,
         min |-> min, typ |-> typ, max |-> max, selected |-> "typ",
         type |-> typ.type]

\* MinTypMaxExpression::fromSyntax: the MinTypMaxExpression it builds, bad
\* when badExpr wraps it.
MinTypMaxFromSyntax(opts, syntax, context) ==
    LET flagsOf(m) == IF opts.minTypMax = m THEN {}
                      ELSE {"UnevaluatedBranch"}
        min == Create(syntax.min, context, flagsOf("Min"))
        typ == Create(syntax.typ, context, flagsOf("Typ"))
        max == Create(syntax.max, context, flagsOf("Max"))
        selected == SelectedBranch(opts.minTypMax)
        sel == CASE selected = "min" -> min
                 [] selected = "typ" -> typ
                 [] selected = "max" -> max
    IN  [kind |-> "MinTypMax", bad |-> min.bad \/ typ.bad \/ max.bad,
         min |-> min, typ |-> typ, max |-> max, selected |-> selected,
         type |-> sel.type]

\* MinTypMaxExpression::selected.
Selected(e) ==
    CASE e.selected = "min" -> e.min
      [] e.selected = "typ" -> e.typ
      [] e.selected = "max" -> e.max

\* eval of a bound branch: bad unless it is a constant.
BranchEval(b) == IF b.const /\ ~b.bad THEN b.value ELSE Bad

\* MinTypMaxExpression::evalImpl, verifyConstantImpl, getEffectiveWidthImpl.
MinTypMaxEval(e) == BranchEval(Selected(e))
MinTypMaxVerifyConstant(e) == Selected(e).const /\ ~Selected(e).bad
MinTypMaxEffectiveWidth(e) == Selected(e).width

\* The contexts expressions are bound in: inside up to MaxScopeDepth
\* subroutines and statement blocks of a class or of the module.
InnerScopes ==
    UNION {[1..n -> {Scope("Subroutine", "m", FALSE),
                     Scope("Subroutine", "sm", TRUE),
                     Scope("StatementBlock", "blk", FALSE)}] :
              n \in 0..MaxScopeDepth}
BindScopes ==
    {i \o <<ClassScope(c)>> \o OuterScopes(c) : i \in InnerScopes,
                                                 c \in ClassNames}
    \cup {i \o <<ModuleScope>> : i \in InnerScopes}
BindFlags == {"StaticInitializer", "ProceduralStatement"}
BindContexts ==
    {BindContext(sc, fl, <<>>) : sc \in BindScopes, fl \in SUBSET BindFlags}

\* The symbols names resolve to: properties and variables of Base and of
\* Derived, a variable of the module, and a symbol that is not a value.
Members ==
    {Member("p", "ClassProperty", TRUE, lt, FALSE, ClassScope(c)) :
        lt \in {"Automatic", "Static"}, c \in {"Base", "Derived"}}
    \cup {Member("x", "Variable", TRUE, lt, FALSE, ModuleScope) :
            lt \in {"Automatic", "Static"}}
    \cup {Member("T", "TypeAlias", FALSE, "Static", FALSE, ModuleScope)}
Methods ==
    {Method("m", st, ClassScope(c), v) :
        st \in BOOLEAN, c \in {"Base", "Derived"}, v \in BOOLEAN}
    \cup {Method("f", FALSE, ModuleScope, v) : v \in BOOLEAN}

\* The symbols on the left of an assignment.
Assigned ==
    {Member("s", k, TRUE, "Static", ch, ModuleScope) :
        k \in {"Parameter", "EnumValue", "Net", "Variable", "ClassProperty",
               "Specparam"},
        ch \in BOOLEAN}

\* The min:typ:max expressions bound: the three branches differ in type,
\* width and value; each is a constant, is not a constant, or binds badly.
BranchTypes == [min |-> "byte", typ |-> "int", max |-> "longint"]
BranchShapes == {"const", "nonconst", "bad"}
BranchWidths == [min |-> 8, typ |-> 32, max |-> 64]
BranchValues == [min |-> 1, typ |-> 2, max |-> 3]
Branch(nm, shape) ==
    BranchSyntax(BranchTypes[nm], BranchWidths[nm], Val(BranchValues[nm]),
                 shape = "bad", shape = "const")
MinTypMaxSyntaxes ==
    {[min |-> Branch("min", a), typ |-> Branch("typ", b),
      max |-> Branch("max", c)] :
        a \in BranchShapes, b \in BranchShapes, c \in BranchShapes}

InitBind ==
    /\ scriptEval = FALSE
    /\ stack = <<Frame(NoSub, NoLocation)>>
    /\ diags = <<>>
    /\ ctl = <<>>
    /\ ret = <<>>
    /\ top = BadE
    /\ formals = <<>>
    /\ argSyntax = <<>>
    /\ call = <<>>
    /\ bindDiags = <<>>
    /\ bindLocals = <<>>
    /\ options \in {CompilationOptions(FALSE, m) : m \in MinTypMaxValues}
    /\ bindCtx \in BindContexts
    /\ enclosing = <<>>
    /\ query = NoQuery
    /\ answer = <<>>
    /\ NoObjects

\* A name that resolved to a symbol is bound as a value.
FromSymbolCall ==
    /\ answer = <<>>
    /\ \E symbol \in Members, isHierarchical \in BOOLEAN :
        LET r == FromSymbol(bindCtx, symbol, isHierarchical) IN
        /\ query' = [op |-> "fromSymbol", symbol |-> symbol,
                     isHierarchical |-> isHierarchical]
        /\ bindDiags' = r.dg
        /\ answer' = <<r.e>>
    /\ UNCHANGED <<evalVars, formals, argSyntax, call, bindLocals, options,
                   objVars, bindCtx, enclosing>>

\* A name that resolved to a user subroutine is bound as a call.
FromLookupCall ==
    /\ answer = <<>>
    /\ \E sub \in Methods, thisClass \in BOOLEAN, syntax \in BOOLEAN,
          withClause \in BOOLEAN :
        LET r == FromLookup(bindCtx, sub, thisClass, syntax, withClause) IN
        /\ query' = [op |-> "fromLookup", sub |-> sub, thisClass |-> thisClass,
                     syntax |-> syntax, withClause |-> withClause]
        /\ bindDiags' = r.dg
        /\ answer' = <<r.e>>
    /\ UNCHANGED <<evalVars, formals, argSyntax, call, bindLocals, options,
                   objVars, bindCtx, enclosing>>

\* An expression that names a symbol is checked as the target of an
\* assignment.
VerifyAssignableCall ==
    /\ answer = <<>>
    /\ \E symbol \in Assigned, isNonBlocking \in BOOLEAN, verdict \in BOOLEAN :
        LET r == VerifyAssignable(bindCtx, symbol, isNonBlocking, verdict) IN
        /\ query' = [op |-> "verifyAssignable", symbol |-> symbol,
                     isNonBlocking |-> isNonBlocking]
        /\ bindDiags' = r.dg
        /\ answer' = <<[ok |-> r.ok]>>
    /\ UNCHANGED <<evalVars, formals, argSyntax, call, bindLocals, options,
                   objVars, bindCtx, enclosing>>

\* A min:typ:max expression is bound.
MinTypMaxFromSyntaxCall ==
    /\ answer = <<>>
    /\ \E syntax \in MinTypMaxSyntaxes :
        /\ query' = [op |-> "minTypMax", syntax |-> syntax,
                     evaluated |-> <<>>]
        /\ answer' = <<MinTypMaxFromSyntax(options, syntax, bindCtx)>>
    /\ UNCHANGED <<evalVars, formals, argSyntax, call, bindLocals, options,
                   objVars, bindCtx, enclosing, bindDiags>>

\* The MinTypMaxExpression that was bound is evaluated: the selected branch
\* is evaluated and its value returned.
MinTypMaxEvalCall ==
    /\ query.op = "minTypMax"
    /\ answer # <<>>
    /\ ret = <<>>
    /\ ret' = <<MinTypMaxEval(answer[1])>>
    /\ query' = [query EXCEPT !.evaluated = Append(@, answer[1].selected)]
    /\ UNCHANGED <<scriptEval, stack, diags, ctl, top, argVars, options,
                   objVars, bindCtx, enclosing, answer>>

NextBind ==
    \/ FromSymbolCall
    \/ FromLookupCall
    \/ VerifyAssignableCall
    \/ MinTypMaxFromSyntaxCall
    \/ MinTypMaxEvalCall

SpecBind == InitBind /\ [][NextBind]_vars

\* ------------------------------------------------------------ with-clauses

\* An IteratorSymbol: its name and its nextIterator link (<<>>: the end of
\* the chain, <<it>>: the next IteratorSymbol).
IteratorSymbol(nm, nextIterator) == [name |-> nm, nextIterator |-> nextIterator]

\* The names of the iterators of a chain, from its head.
RECURSIVE IteratorChain(_)
IteratorChain(first) ==
    IF first = <<>> THEN <<>>
    ELSE <<first[1].name>> \o IteratorChain(first[1].nextIterator)

\* An argument of the invocation. exprKind: the SyntaxKind of the expression
\* of an ordered argument; name: the text of its identifier (empty when the
\* parser made the identifier up).
IterArg(kind, exprKind, nm) == [kind |-> kind, exprKind |-> exprKind, name |-> nm]
IterArgs ==
    {IterArg("OrderedArgument", "IdentifierName", "x"),
     IterArg("OrderedArgument", "IdentifierName", ""),
     IterArg("OrderedArgument", "IntegerLiteralExpression", ""),
     IterArg("NamedArgument", "", "x"),
     IterArg("EmptyArgument", "", "")}

\* The invocation: <<>> when the method is named without parentheses, else
\* <<[arguments]>> with arguments <<>> (no argument list) or <<parameters>>.
Invocations ==
    {<<>>, <<[arguments |-> <<>>]>>, <<[arguments |-> <<(<<>>)>>]>>}
    \cup {<<[arguments |-> <<(<<a>>)>>]>> : a \in IterArgs}
    \cup {<<[arguments |-> <<(<<a, IterArg("OrderedArgument", "IdentifierName", "y")>>)>>]>> :
              a \in IterArgs}

\* An iteration expression as written: it binds to a bad expression or not,
\* and it holds another array method with a with-clause or not.
IterationExprs ==
    {e \in [bad : BOOLEAN, nested : BOOLEAN] : ~(e.bad /\ e.nested)}

\* The with-clause. constraints: a constraint block follows; args: <<>>
\* when the parenthesised list is missing, else <<expressions>>.
WithClauses ==
    {[constraints |-> c, args |-> a] :
        c \in BOOLEAN,
        a \in {<<>>, <<(<<>>)>>}
              \cup {<<(<<e>>)>> : e \in IterationExprs}
              \cup {<<(<<e, e>>)>> : e \in IterationExprs}}

\* Expression::bind of the iteration expression in a context.
Bind(syntax, context) == [bad |-> syntax.bad, context |-> context]

\* The result of bindIteratorExpr. expr: <<>> (nullptr) or <<e>>; iterVar:
\* <<>> or <<it>>; iterCtx: the context the iteration expression is bound
\* in; context: the context of the caller when bindIteratorExpr returns.
IterResult(expr, iterVar, iterCtx, context, dg) ==
    [expr |-> expr, iterVar |-> iterVar, iterCtx |-> iterCtx,
     context |-> context, dg |-> dg]

\* BindIteratorExpr naming the iterator after a first identifier whatever
\* follows it.
BindIteratorExprFirstOfMany(invocation, withClause, context) ==
    LET none(code) == IterResult(<<>>, <<>>, <<>>, context,
                                 IF code = "" THEN <<>>
                                 ELSE <<Diag(code, "", "")>>)
        hasArgs == invocation # <<>> /\ invocation[1].arguments # <<>>
        actualArgs == IF hasArgs THEN invocation[1].arguments[1] ELSE <<>>
        isId == /\ Len(actualArgs) >= 1
                /\ actualArgs[1].kind = "OrderedArgument"
                /\ actualArgs[1].exprKind = "IdentifierName"
        iteratorName == IF isId THEN actualArgs[1].name ELSE ""
    IN
    IF withClause.constraints THEN none("UnexpectedConstraintBlock")
    ELSE IF withClause.args = <<>> THEN none("ExpectedIterationExpression")
    ELSE IF Len(withClause.args[1]) # 1 THEN none("ExpectedIterationExpression")
    ELSE IF isId /\ iteratorName = "" THEN none("")
    ELSE IF iteratorName = "" /\ actualArgs # <<>>
    THEN none("ExpectedIteratorName")
    ELSE LET it == IteratorSymbol(IF iteratorName = "" THEN "item"
                                  ELSE iteratorName, context.firstIterator)
             iterCtx == BindContext(context.scope,
                                    context.flags \ {"StaticInitializer"},
                                    <<it>>)
         IN  IterResult(<<Bind(withClause.args[1][1], iterCtx)>>, <<it>>,
                        <<iterCtx>>, context, <<>>)

\* BindIteratorExpr working on the context of its caller instead of a copy.
BindIteratorExprInPlace(invocation, withClause, context) ==
    LET none(code) == IterResult(<<>>, <<>>, <<>>, context,
                                 IF code = "" THEN <<>>
                                 ELSE <<Diag(code, "", "")>>)
        hasArgs == invocation # <<>> /\ invocation[1].arguments # <<>>
        actualArgs == IF hasArgs THEN invocation[1].arguments[1] ELSE <<>>
        isId == /\ Len(actualArgs) = 1
                /\ actualArgs[1].kind = "OrderedArgument"
                /\ actualArgs[1].exprKind = "IdentifierName"
        iteratorName == IF isId THEN actualArgs[1].name ELSE ""
    IN
    IF withClause.constraints THEN none("UnexpectedConstraintBlock")
    ELSE IF withClause.args = <<>> THEN none("ExpectedIterationExpression")
    ELSE IF Len(withClause.args[1]) # 1 THEN none("ExpectedIterationExpression")
    ELSE IF isId /\ iteratorName = "" THEN none("")
    ELSE IF iteratorName = "" /\ actualArgs # <<>>
    THEN none("ExpectedIteratorName")
    ELSE LET it == IteratorSymbol(IF iteratorName = "" THEN "item"
                                  ELSE iteratorName, context.firstIterator)
             iterCtx == BindContext(context.scope,
                                    context.flags \ {"StaticInitializer"},
                                    <<it>>)
         IN  IterResult(<<Bind(withClause.args[1][1], iterCtx)>>, <<it>>,
                        <<iterCtx>>, iterCtx, <<>>)

\* bindIteratorExpr, the iteration expression bound in the new context.
BindIteratorExpr(invocation, withClause, context) ==
    LET none(code) == IterResult(<<>>, <<>>, <<>>, context,
                                 IF code = "" THEN <<>>
                                 ELSE <<Diag(code, "", "")>>)
        hasArgs == invocation # <<>> /\ invocation[1].arguments # <<>>
        actualArgs == IF hasArgs THEN invocation[1].arguments[1] ELSE <<>>
        isId == /\ Len(actualArgs) = 1
                /\ actualArgs[1].kind = "OrderedArgument"
                /\ actualArgs[1].exprKind = "IdentifierName"
        iteratorName == IF isId THEN actualArgs[1].name ELSE ""
    IN
    IF withClause.constraints THEN none("UnexpectedConstraintBlock")
    ELSE IF withClause.args = <<>> THEN none("ExpectedIterationExpression")
    ELSE IF Len(withClause.args[1]) # 1 THEN none("ExpectedIterationExpression")
    ELSE IF isId /\ iteratorName = "" THEN none("")
    ELSE IF iteratorName = "" /\ actualArgs # <<>>
    THEN none("ExpectedIteratorName")
    ELSE LET it == IteratorSymbol(IF iteratorName = "" THEN "item"
                                  ELSE iteratorName, context.firstIterator)
             iterCtx == BindContext(context.scope,
                                    context.flags \ {"StaticInitializer"},
                                    <<it>>)
         IN  IterResult(<<Bind(withClause.args[1][1], iterCtx)>>, <<it>>,
                        <<iterCtx>>, context, <<>>)

InitIter ==
    /\ scriptEval = FALSE
    /\ stack = <<Frame(NoSub, NoLocation)>>
    /\ diags = <<>>
    /\ ctl = <<>>
    /\ ret = <<>>
    /\ top = BadE
    /\ formals = <<>>
    /\ argSyntax = <<>>
    /\ call = <<>>
    /\ bindDiags = <<>>
    /\ bindLocals = <<>>
    /\ options = DefaultOptions
    /\ bindCtx \in {BindContext(<<ModuleScope>>, fl, <<>>) :
                       fl \in SUBSET BindFlags}
    /\ enclosing = <<>>
    /\ query = NoQuery
    /\ answer = <<>>
    /\ NoObjects

\* The iteration expression of the with-clause holds another with-clause.
IsNested(withClause) ==
    /\ withClause.args # <<>>
    /\ Len(withClause.args[1]) = 1
    /\ withClause.args[1][1].nested

\* createSystemCall reaches bindIteratorExpr for a with-clause whose
\* iteration expression holds no other with-clause: it runs to its end.
BindIteratorExprCall ==
    /\ answer = <<>>
    /\ \E invocation \in Invocations, withClause \in WithClauses :
        LET r == BindIteratorExpr(invocation, withClause, bindCtx) IN
        /\ ~IsNested(withClause) \/ r.iterCtx = <<>>
        /\ query' = [op |-> "bindIteratorExpr", invocation |-> invocation,
                     withClause |-> withClause]
        /\ bindDiags' = bindDiags \o r.dg
        /\ bindCtx' = r.context
        /\ answer' = <<[expr |-> r.expr, iterVar |-> r.iterVar,
                        iterCtx |-> r.iterCtx]>>
    /\ UNCHANGED <<evalVars, formals, argSyntax, call, bindLocals, options,
                   objVars,
                   enclosing>>

\* bindIteratorExpr binds an iteration expression that holds another
\* with-clause: the binder goes on in the new context, the with-clause it
\* came from waiting for the expression.
BindNestedExpr ==
    /\ answer = <<>>
    /\ Len(enclosing) < MaxNesting
    /\ \E invocation \in Invocations, withClause \in WithClauses :
        LET r == BindIteratorExpr(invocation, withClause, bindCtx) IN
        /\ IsNested(withClause)
        /\ r.iterCtx # <<>>
        /\ enclosing' = Append(enclosing,
                [context |-> r.context, iterVar |-> r.iterVar,
                 iterCtx |-> r.iterCtx,
                 query |-> [op |-> "bindIteratorExpr",
                            invocation |-> invocation,
                            withClause |-> withClause]])
        /\ bindCtx' = r.iterCtx[1]
    /\ UNCHANGED <<evalVars, argVars, options, objVars, query, answer>>

\* The inner with-clause is bound: Expression::bind returns the iteration
\* expression to the with-clause that waits, and bindIteratorExpr returns.
ReturnNestedExpr ==
    /\ answer # <<>>
    /\ enclosing # <<>>
    /\ LET fr == Last(enclosing)
           inner == answer[1].expr
       IN
        /\ answer' = <<[expr |-> <<[bad |-> inner = <<>> \/ inner[1].bad
                                           \/ fr.query.withClause.args[1][1].bad,
                                    context |-> fr.iterCtx[1]]>>,
                        iterVar |-> fr.iterVar, iterCtx |-> fr.iterCtx]>>
        /\ query' = fr.query
        /\ bindCtx' = fr.context
        /\ enclosing' = Front(enclosing)
    /\ UNCHANGED <<evalVars, argVars, options, objVars>>

NextIter ==
    \/ BindIteratorExprCall
    \/ BindNestedExpr
    \/ ReturnNestedExpr

SpecIter == InitIter /\ [][NextIter]_vars

\* ----------------------------------------------------------------- imports

\* The design root: its packages, each with the names of its members.
Roots ==
    {<<>>, [p |-> {}], [p |-> {"x"}], [p |-> {"x"}, q |-> {"x", "y"}]}

\* RootSymbol::findPackage: <<>> (null) or <<package>>.
FindPackage(root, packageName) ==
    IF packageName \in DOMAIN root THEN <<packageName>> ELSE <<>>

\* Scope::lookupDirect in a package: <<>> (null) or <<symbol>>.
LookupDirect(root, package, nm) ==
    IF nm \in root[package] THEN <<[package |-> package, name |-> nm]>>
    ELSE <<>>

\* An ExplicitImportSymbol as constructed: nothing resolved yet. finds and
\* lookups count the calls of findPackage and lookupDirect made for it.
ExplicitImportSymbol(packageName, importName) ==
    [packageName |-> packageName, importName |-> importName,
     initialized |-> FALSE, package_ |-> <<>>, import |-> <<>>,
     finds |-> 0, lookups |-> 0]

\* A WildcardImportSymbol as constructed. package: <<>> while the optional
\* holds nothing, else <<p>> with p the pointer it holds, <<>> when null.
WildcardImportSymbol(packageName) ==
    [packageName |-> packageName, package |-> <<>>, finds |-> 0]

\* ExplicitImportSymbol::importedSymbol: [sym, result].
ImportedSymbol(sym, root) ==
    IF ~sym.initialized
    THEN LET pkg == FindPackage(root, sym.packageName)
             imp == IF pkg # <<>>
                    THEN LookupDirect(root, pkg[1], sym.importName)
                    ELSE sym.import
             s1 == [sym EXCEPT !.initialized = TRUE,
                               !.package_ = pkg,
                               !.import = imp,
                               !.finds = @ + 1,
                               !.lookups = IF pkg # <<>> THEN @ + 1 ELSE @]
         IN  [sym |-> s1, result |-> s1.import]
    ELSE [sym |-> sym, result |-> sym.import]

\* ExplicitImportSymbol::package: [sym, result].
ExplicitPackage(sym, root) ==
    LET r == ImportedSymbol(sym, root) IN
    [sym |-> r.sym, result |-> r.sym.package_]

\* GetPackage keeping the pointer alone: a null pointer reads as not looked
\* up yet.
GetPackageNoCacheOnMiss(sym, root) ==
    IF sym.package = <<>> \/ sym.package[1] = <<>>
    THEN LET pkg == FindPackage(root, sym.packageName) IN
         [sym |-> [sym EXCEPT !.package = <<pkg>>, !.finds = @ + 1],
          result |-> pkg]
    ELSE [sym |-> sym, result |-> sym.package[1]]

\* WildcardImportSymbol::getPackage: [sym, result].
GetPackage(sym, root) ==
    IF sym.package = <<>>
    THEN LET pkg == FindPackage(root, sym.packageName) IN
         [sym |-> [sym EXCEPT !.package = <<pkg>>, !.finds = @ + 1],
          result |-> pkg]
    ELSE [sym |-> sym, result |-> sym.package[1]]

InitImport ==
    /\ scriptEval = FALSE
    /\ stack = <<Frame(NoSub, NoLocation)>>
    /\ diags = <<>>
    /\ ctl = <<>>
    /\ ret = <<>>
    /\ top = BadE
    /\ formals = <<>>
    /\ argSyntax = <<>>
    /\ call = <<>>
    /\ bindDiags = <<>>
    /\ bindLocals = <<>>
    /\ options = DefaultOptions
    /\ bindCtx = NoBindContext
    /\ enclosing = <<>>
    /\ query = NoQuery
    /\ answer = <<>>
    /\ vctl = <<>>
    /\ vret = <<>>
    /\ inRecursion = {}
    /\ types = <<>>
    /\ symtab = <<>>
    /\ walk = <<>>
    /\ \E root \in Roots, pn \in {"p", "q"}, nm \in {"x", "y"} :
          imports = <<[root |-> root,
                       explicit |-> ExplicitImportSymbol(pn, nm),
                       wildcard |-> WildcardImportSymbol(pn)]>>

\* A lookup calls importedSymbol() on the explicit import.
ImportedSymbolCall ==
    /\ Len(answer) < MaxCalls
    /\ LET r == ImportedSymbol(imports[1].explicit, imports[1].root) IN
        /\ imports' = <<[imports[1] EXCEPT !.explicit = r.sym]>>
        /\ query' = [op |-> "importedSymbol"]
        /\ answer' = Append(answer, [op |-> "importedSymbol",
                                     result |-> r.result])
    /\ UNCHANGED <<evalVars, argVars, options, bindCtx, enclosing, vctl, vret,
                   inRecursion, types, scopeVars>>

\* A lookup calls package() on the explicit import.
ExplicitPackageCall ==
    /\ Len(answer) < MaxCalls
    /\ LET r == ExplicitPackage(imports[1].explicit, imports[1].root) IN
        /\ imports' = <<[imports[1] EXCEPT !.explicit = r.sym]>>
        /\ query' = [op |-> "package"]
        /\ answer' = Append(answer, [op |-> "package", result |-> r.result])
    /\ UNCHANGED <<evalVars, argVars, options, bindCtx, enclosing, vctl, vret,
                   inRecursion, types, scopeVars>>

\* A lookup calls getPackage() on the wildcard import.
GetPackageCall ==
    /\ Len(answer) < MaxCalls
    /\ LET r == GetPackage(imports[1].wildcard, imports[1].root) IN
        /\ imports' = <<[imports[1] EXCEPT !.wildcard = r.sym]>>
        /\ query' = [op |-> "getPackage"]
        /\ answer' = Append(answer, [op |-> "getPackage",
                                     result |-> r.result])
    /\ UNCHANGED <<evalVars, argVars, options, bindCtx, enclosing, vctl, vret,
                   inRecursion, types, scopeVars>>

NextImport ==
    \/ ImportedSymbolCall
    \/ ExplicitPackageCall
    \/ GetPackageCall

SpecImport == InitImport /\ [][NextImport]_vars

\* ------------------------------------------------------------------- types

\* The null pointer among the indices of the type table.
NullType == 0

\* Type::Type: a new type, the i-th of the table, is its own canonical type.
NewType(i) == [alias |-> FALSE, target |-> NullType, canonical |-> i]

\* A type alias for the type target: its canonical type is resolved on
\* demand.
NewTypeAlias(target) ==
    [alias |-> TRUE, target |-> target, canonical |-> NullType]

\* Type::resolveCanonical: the first type that is not an alias, following
\* the targets from t.
RECURSIVE Unwrap(_, _)
Unwrap(tt, t) == IF ~tt[t].alias THEN t ELSE Unwrap(tt, tt[t].target)

ResolveCanonical(tt, t) == [tt EXCEPT ![t].canonical = Unwrap(tt, t)]

\* GetCanonicalType that returns the pointer as it finds it.
GetCanonicalTypeNoResolve(tt, t) == [types |-> tt, result |-> tt[t].canonical]

\* Type::getCanonicalType: [types, result].
GetCanonicalType(tt, t) ==
    LET t1 == IF tt[t].canonical = NullType THEN ResolveCanonical(tt, t)
              ELSE tt
    IN  [types |-> t1, result |-> t1[t].canonical]

InitType ==
    /\ scriptEval = FALSE
    /\ stack = <<Frame(NoSub, NoLocation)>>
    /\ diags = <<>>
    /\ ctl = <<>>
    /\ ret = <<>>
    /\ top = BadE
    /\ formals = <<>>
    /\ argSyntax = <<>>
    /\ call = <<>>
    /\ bindDiags = <<>>
    /\ bindLocals = <<>>
    /\ options = DefaultOptions
    /\ bindCtx = NoBindContext
    /\ enclosing = <<>>
    /\ query = NoQuery
    /\ answer = <<>>
    /\ vctl = <<>>
    /\ vret = <<>>
    /\ inRecursion = {}
    /\ imports = <<>>
    /\ types = <<>>
    /\ symtab = <<>>
    /\ walk = <<>>

\* The compilation creates a type that is not an alias.
CreateType ==
    /\ Len(types) < MaxTypes
    /\ types' = Append(types, NewType(Len(types) + 1))
    /\ UNCHANGED <<evalVars, argVars, options, bindCtx, enclosing, query,
                   answer, vctl, vret, inRecursion, imports, scopeVars>>

\* The compilation creates an alias for a type that exists.
CreateTypeAlias ==
    /\ Len(types) < MaxTypes
    /\ \E target \in 1..Len(types) :
          types' = Append(types, NewTypeAlias(target))
    /\ UNCHANGED <<evalVars, argVars, options, bindCtx, enclosing, query,
                   answer, vctl, vret, inRecursion, imports, scopeVars>>

\* getCanonicalType() is called on a type.
GetCanonicalTypeCall ==
    /\ \E t \in 1..Len(types) :
        LET r == GetCanonicalType(types, t) IN
        /\ types' = r.types
        /\ query' = [op |-> "getCanonicalType", t |-> t]
        /\ answer' = <<r.result>>
    /\ UNCHANGED <<evalVars, argVars, options, bindCtx, enclosing, vctl, vret,
                   inRecursion, imports, scopeVars>>

NextType ==
    \/ CreateType
    \/ CreateTypeAlias
    \/ GetCanonicalTypeCall

SpecType == InitType /\ [][NextType]_vars

\* ------------------------------------------------------------------ scopes

NoScope == 0

RootSymbol == [kind |-> "Root", parentScope |-> NoScope, static |-> FALSE]

\* The design root is the first symbol of the table.
Root == 1

SymbolKinds == {"Module", "ClassType", "Subroutine", "StatementBlock"}

\* A symbol declared in the scope parentScope; static: a subroutine that is
\* a static class method.
NewSymbol(kind, parentScope, static) ==
    [kind |-> kind, parentScope |-> parentScope, static |-> static]

\* Symbol::getParentScope: the scope a symbol is declared in, and no scope
\* for the design root.
GetParentScope(st, s) == st[s].parentScope

IdleWalk == [op |-> "none", pc |-> "done"]

Walking == walk.pc = "loop"

InitScope ==
    /\ scriptEval = FALSE
    /\ stack = <<Frame(NoSub, NoLocation)>>
    /\ diags = <<>>
    /\ ctl = <<>>
    /\ ret = <<>>
    /\ top = BadE
    /\ formals = <<>>
    /\ argSyntax = <<>>
    /\ call = <<>>
    /\ bindDiags = <<>>
    /\ bindLocals = <<>>
    /\ options = DefaultOptions
    /\ bindCtx = NoBindContext
    /\ enclosing = <<>>
    /\ query = NoQuery
    /\ answer = <<>>
    /\ vctl = <<>>
    /\ vret = <<>>
    /\ inRecursion = {}
    /\ imports = <<>>
    /\ types = <<>>
    /\ symtab = <<RootSymbol>>
    /\ walk = IdleWalk

\* The compilation declares a symbol in a scope that exists.
CreateSymbol ==
    /\ ~Walking
    /\ Len(symtab) <= MaxSymbols
    /\ \E kind \in SymbolKinds, parentScope \in 1..Len(symtab),
          static \in BOOLEAN :
        /\ static => kind = "Subroutine"
        /\ symtab' = Append(symtab, NewSymbol(kind, parentScope, static))
    /\ walk' = IdleWalk
    /\ UNCHANGED <<evalVars, argVars, options, bindCtx, enclosing, query,
                   answer, vctl, vret, inRecursion, imports, types>>

\* NamedValueExpression::verifyConstantImpl reaches its scope walk: the
\* symbol is declared in the newest scope, the frame's subroutine is one of
\* the subroutines of the design.
StartScopeWalk ==
    /\ ~Walking
    /\ \E subroutine \in {s \in 1..Len(symtab) :
                             symtab[s].kind = "Subroutine"} :
          walk' = [op |-> "verifyConstant", pc |-> "loop",
                   scope |-> Len(symtab), subroutine |-> subroutine]
    /\ UNCHANGED <<evalVars, argVars, options, bindCtx, enclosing, query,
                   answer, vctl, vret, inRecursion, imports, types, symtab>>

\* One test of the loop condition of the scope walk, and the step to the
\* parent scope or the end of the loop.
ScopeWalkStep ==
    /\ Walking
    /\ walk.op = "verifyConstant"
    /\ IF walk.scope # NoScope /\ walk.scope # walk.subroutine
       THEN walk' = [walk EXCEPT !.scope = GetParentScope(symtab, @)]
       ELSE walk' = [op |-> "verifyConstant", pc |-> "done",
                     local |-> walk.scope = walk.subroutine]
    /\ UNCHANGED <<evalVars, argVars, options, bindCtx, enclosing, query,
                   answer, vctl, vret, inRecursion, imports, types, symtab>>

\* getParentClass is called with the newest scope.
StartGetParentClass ==
    /\ ~Walking
    /\ walk' = [op |-> "getParentClass", pc |-> "loop",
                parent |-> Len(symtab), inStatic |-> FALSE]
    /\ UNCHANGED <<evalVars, argVars, options, bindCtx, enclosing, query,
                   answer, vctl, vret, inRecursion, imports, types, symtab>>

\* The outcome of one iteration of getParentClass's loop at the symbol
\* parent: it returns, the assertion fails, or it goes on from the parent.
GetParentClassReturn(parent, inStatic) ==
    [op |-> "getParentClass", pc |-> "done", assert |-> FALSE,
     parent |-> parent, inStatic |-> inStatic]

\* The iteration without the test that stops at a symbol that is neither a
\* class, a subroutine nor a statement block.
GetParentClassLoopNoKindTest(st, w) ==
    LET sym == st[w.parent]
        inStatic == w.inStatic \/ (sym.kind = "Subroutine" /\ sym.static)
        parentScope == GetParentScope(st, w.parent)
    IN  IF sym.kind = "ClassType"
        THEN GetParentClassReturn(w.parent, inStatic)
        ELSE IF parentScope = NoScope
        THEN [op |-> "getParentClass", pc |-> "done", assert |-> TRUE]
        ELSE [w EXCEPT !.parent = parentScope, !.inStatic = inStatic]

GetParentClassLoop(st, w) ==
    LET sym == st[w.parent]
        inStatic == w.inStatic \/ (sym.kind = "Subroutine" /\ sym.static)
        parentScope == GetParentScope(st, w.parent)
    IN  IF sym.kind = "ClassType"
        THEN GetParentClassReturn(w.parent, inStatic)
        ELSE IF sym.kind \notin {"Subroutine", "StatementBlock"}
        THEN GetParentClassReturn(NoScope, FALSE)
        ELSE IF parentScope = NoScope
        THEN [op |-> "getParentClass", pc |-> "done", assert |-> TRUE]
        ELSE [w EXCEPT !.parent = parentScope, !.inStatic = inStatic]

GetParentClassStep ==
    /\ Walking
    /\ walk.op = "getParentClass"
    /\ walk' = GetParentClassLoop(symtab, walk)
    /\ UNCHANGED <<evalVars, argVars, options, bindCtx, enclosing, query,
                   answer, vctl, vret, inRecursion, imports, types, symtab>>

NextScope ==
    \/ CreateSymbol
    \/ StartScopeWalk
    \/ ScopeWalkStep
    \/ StartGetParentClass
    \/ GetParentClassStep

SpecScope == InitScope /\ [][NextScope]_vars

\* Neither walk is abandoned half-way.
FairSpecScope ==
    SpecScope /\ WF_vars(ScopeWalkStep) /\ WF_vars(GetParentClassStep)

\* ------------------------------------------------ subroutine declarations

LogicType == "logic"

\* No data type is written (a null dataType, a null lastType).
NoDataType == "none"

DataTypes == {"int", "byte"}

DirectionKeywords ==
    {"InputKeyword", "OutputKeyword", "InOutKeyword", "RefKeyword", "Unknown"}

\* One port of a prototype: the kind of its direction token, whether `const`
\* is written, its data type and whether its declarator has an initializer.
FunctionPortSyntax(nm, direction, constKeyword, dataType, initializer) ==
    [name |-> nm, direction |-> direction, constKeyword |-> constKeyword,
     dataType |-> dataType, initializer |-> initializer]

\* FormalArgumentSymbol::FormalArgumentSymbol, with the type and the
\* initializer fromSyntax assigns.
FormalArgumentSymbol(nm, direction, type, initializer) ==
    [kind |-> "FormalArgument", name |-> nm, direction |-> direction,
     isConst |-> direction = "ConstRef", type |-> type,
     initializer |-> initializer, members |-> <<>>]

\* The switch on the direction token: [direction, directionSpecified].
PortDirection(port, lastDirection) ==
    CASE port.direction = "InputKeyword" ->
            [direction |-> "In", directionSpecified |-> TRUE]
      [] port.direction = "OutputKeyword" ->
            [direction |-> "Out", directionSpecified |-> TRUE]
      [] port.direction = "InOutKeyword" ->
            [direction |-> "InOut", directionSpecified |-> TRUE]
      [] port.direction = "RefKeyword" ->
            [direction |-> IF port.constKeyword THEN "ConstRef" ELSE "Ref",
             directionSpecified |-> TRUE]
      [] port.direction = "Unknown" ->
            [direction |-> lastDirection, directionSpecified |-> FALSE]

\* The type of the formal and the lastType the loop goes on with.
PortType(port, directionSpecified, lastType) ==
    IF port.dataType # NoDataType
    THEN [type |-> port.dataType, lastType |-> port.dataType]
    ELSE IF directionSpecified \/ lastType = NoDataType
    THEN [type |-> LogicType, lastType |-> NoDataType]
    ELSE [type |-> lastType, lastType |-> lastType]

\* The port loop that keeps lastType when a formal defaults to logic.
RECURSIVE FormalArgumentsKeepLastType(_, _, _)
FormalArgumentsKeepLastType(ports, lastType, lastDirection) ==
    IF ports = <<>> THEN <<>>
    ELSE LET port == Head(ports)
             d == PortDirection(port, lastDirection)
             t == PortType(port, d.directionSpecified, lastType)
             keep == IF port.dataType # NoDataType THEN port.dataType
                     ELSE lastType
         IN  <<FormalArgumentSymbol(port.name, d.direction, t.type,
                                    port.initializer)>>
             \o FormalArgumentsKeepLastType(Tail(ports), keep, d.direction)

\* SubroutineSymbol::fromSyntax, the loop over the ports: the formal
\* arguments, in order.
RECURSIVE FormalArguments(_, _, _)
FormalArguments(ports, lastType, lastDirection) ==
    IF ports = <<>> THEN <<>>
    ELSE LET port == Head(ports)
             d == PortDirection(port, lastDirection)
             t == PortType(port, d.directionSpecified, lastType)
         IN  <<FormalArgumentSymbol(port.name, d.direction, t.type,
                                    port.initializer)>>
             \o FormalArguments(Tail(ports), t.lastType, d.direction)

\* A statement or a declaration of a body: its syntax kind, the initializers
\* of a for loop, the statement of a loop or a conditional, the else clause of
\* a conditional, the declarators of a data declaration.
Syntax(kind) ==
    [kind |-> kind, initializers |-> <<>>, statement |-> <<>>,
     elseClause |-> <<>>, declarators |-> <<>>]

ExpressionStatement == Syntax("ExpressionStatement")

SequentialBlockStatement == Syntax("SequentialBlockStatement")

ForLoopStatement(initializers, statement) ==
    [Syntax("ForLoopStatement") EXCEPT !.initializers = initializers,
                                       !.statement = <<statement>>]

ConditionalStatement(statement, elseClause) ==
    [Syntax("ConditionalStatement") EXCEPT !.statement = <<statement>>,
                                           !.elseClause = elseClause]

DataDeclaration(declarators) ==
    [Syntax("DataDeclaration") EXCEPT !.declarators = declarators]

\* The initializers of a for loop: a variable declaration or an expression.
ForVariableDeclaration(nm) == [kind |-> "ForVariableDeclaration", name |-> nm]

ForExpression == [kind |-> "AssignmentExpression", name |-> ""]

VariableSymbol(nm) == [kind |-> "Variable", name |-> nm, members |-> <<>>]

SequentialBlockSymbol(members) ==
    [kind |-> "SequentialBlock", name |-> "", members |-> members]

\* What a read through a reference to the wrong type gives: the program
\* stops, or the read yields whatever is stored there.
UndefinedReads == {"abort", "garbage"}

Aborted == [kind |-> "abort", name |-> "", members |-> <<>>]

\* SequentialBlockSymbol::createImplicitBlock: the block of a for loop, with
\* the variable of the first initializer, which is read as a variable
\* declaration whatever its kind; ub is the outcome of the read when it is
\* none.
CreateImplicitBlock(forLoop, ub) ==
    LET forVariable == forLoop.initializers[1] IN
    IF forVariable.kind = "ForVariableDeclaration"
    THEN SequentialBlockSymbol(<<VariableSymbol(forVariable.name)>>)
    ELSE IF ub = "abort" THEN Aborted
    ELSE SequentialBlockSymbol(<<VariableSymbol(ub)>>)

\* VariableSymbol::fromSyntax: one variable for each declarator.
VariablesFromSyntax(syntax) ==
    [i \in 1..Len(syntax.declarators) |-> VariableSymbol(syntax.declarators[i])]

\* findChildSymbols of a statement: the symbols it appends to the results.
RECURSIVE FindChildSymbols(_, _)
FindChildSymbols(syntax, ub) ==
    CASE syntax.kind = "ConditionalStatement" ->
            FindChildSymbols(syntax.statement[1], ub)
            \o (IF syntax.elseClause # <<>>
                THEN FindChildSymbols(syntax.elseClause[1], ub)
                ELSE <<>>)
      [] syntax.kind = "ForLoopStatement" ->
            IF \E i \in 1..Len(syntax.initializers) :
                  syntax.initializers[i].kind = "ForVariableDeclaration"
            THEN <<CreateImplicitBlock(syntax, ub)>>
            ELSE FindChildSymbols(syntax.statement[1], ub)
      [] syntax.kind = "SequentialBlockStatement" ->
            <<SequentialBlockSymbol(<<>>)>>
      [] OTHER -> <<>>

\* findChildSymbols of the items of a body.
RECURSIVE FindChildSymbolsOfItems(_, _)
FindChildSymbolsOfItems(items, ub) ==
    IF items = <<>> THEN <<>>
    ELSE (IF Head(items).kind = "DataDeclaration"
          THEN VariablesFromSyntax(Head(items))
          ELSE FindChildSymbols(Head(items), ub))
         \o FindChildSymbolsOfItems(Tail(items), ub)

FunctionDeclarationSyntax(ports, items) == [ports |-> ports, items |-> items]

\* SubroutineSymbol::fromSyntax: the arguments and the members of the new
\* subroutine, or no subroutine when the program stopped.
FromSyntax(syntax, ub) ==
    LET arguments == FormalArguments(syntax.ports, NoDataType, "In")
        members == arguments \o FindChildSymbolsOfItems(syntax.items, ub)
    IN  IF \E i \in 1..Len(members) : members[i] = Aborted
        THEN [aborted |-> TRUE, arguments |-> <<>>, members |-> <<>>]
        ELSE [aborted |-> FALSE, arguments |-> arguments,
              members |-> members]

\* The ports a prototype may write: `const` goes with `ref`, and an
\* initializer is tried on the port that writes nothing else.
PortShapes ==
    {FunctionPortSyntax("", d, c, t, i) :
        d \in DirectionKeywords, c \in BOOLEAN,
        t \in DataTypes \cup {NoDataType}, i \in BOOLEAN} \
    {p \in {FunctionPortSyntax("", d, c, t, i) :
               d \in DirectionKeywords, c \in BOOLEAN,
               t \in DataTypes \cup {NoDataType}, i \in BOOLEAN} :
        \/ p.constKeyword /\ p.direction # "RefKeyword"
        \/ p.initializer /\ (p.direction # "Unknown" \/ p.dataType # NoDataType)}

PortName(i) == <<"a1", "a2", "a3", "a4", "a5">>[i]

\* The port list that writes the shapes, in order.
PortList(shapes) ==
    [i \in 1..Len(shapes) |-> [shapes[i] EXCEPT !.name = PortName(i)]]

InitializerLists ==
    {<<ForExpression>>, <<ForVariableDeclaration("i")>>,
     <<ForVariableDeclaration("i"), ForVariableDeclaration("j")>>,
     <<ForExpression, ForVariableDeclaration("j")>>,
     <<ForVariableDeclaration("i"), ForExpression>>}

\* The statements nested at most d deep.
RECURSIVE Statements(_)
Statements(d) ==
    IF d = 0 THEN {ExpressionStatement, SequentialBlockStatement}
    ELSE LET inner == Statements(d - 1) IN
         inner
         \cup {ForLoopStatement(is, st) : is \in InitializerLists, st \in inner}
         \cup {ConditionalStatement(st, el) :
                  st \in inner, el \in {<<>>} \cup {<<e>> : e \in inner}}

Items ==
    Statements(MaxStatementDepth)
    \cup {DataDeclaration(<<"v">>), DataDeclaration(<<"v", "w">>)}

\* Nothing else of the compilation is in use while a declaration is turned
\* into a symbol.
NoCompilation ==
    /\ scriptEval = FALSE
    /\ stack = <<Frame(NoSub, NoLocation)>>
    /\ diags = <<>>
    /\ ctl = <<>>
    /\ ret = <<>>
    /\ top = BadE
    /\ formals = <<>>
    /\ argSyntax = <<>>
    /\ call = <<>>
    /\ bindDiags = <<>>
    /\ bindLocals = <<>>
    /\ options = DefaultOptions
    /\ bindCtx = NoBindContext
    /\ enclosing = <<>>
    /\ answer = <<>>
    /\ NoObjects

\* A function declaration with any port list.
InitPorts ==
    /\ NoCompilation
    /\ \E n \in 0..MaxPorts :
        \E shapes \in [1..n -> PortShapes] :
          query = [op |-> "fromSyntax",
                   syntax |-> FunctionDeclarationSyntax(
                                 PortList(shapes),
                                 <<DataDeclaration(<<"v">>)>>)]

\* A function declaration with any body.
InitBody ==
    /\ NoCompilation
    /\ \E ports \in {<<>>, <<FunctionPortSyntax("a1", "Unknown", FALSE,
                                                 NoDataType, FALSE)>>},
          n \in 0..MaxItems :
        \E items \in [1..n -> Items] :
          query = [op |-> "fromSyntax",
                   syntax |-> FunctionDeclarationSyntax(ports, items)]

\* SubroutineSymbol::fromSyntax is called with the declaration.
FromSyntaxCall ==
    /\ query.op = "fromSyntax"
    /\ answer = <<>>
    /\ \E ub \in UndefinedReads :
          answer' = <<FromSyntax(query.syntax, ub)>>
    /\ UNCHANGED <<evalVars, argVars, options, objVars, bindCtx, enclosing,
                   query>>

NextSub == FromSyntaxCall

SpecPorts == InitPorts /\ [][NextSub]_vars

SpecBody == InitBody /\ [][NextSub]_vars

\* ------------------------------------------------- claims: the call machine

\* The value the argument loop gets for its next argument: the nested call's
\* result, or the expression evaluated in the frame that was on top when
\* evalImpl was entered.
NextArgValue ==
    LET e == Act.call.args[Len(Act.args) + 1] IN
    IF e.k = "call" THEN ret[1]
    ELSE EvalExpr(e, SubSeq(stack, 1, Act.base), diags, scriptEval).v

\* C1: while evalImpl evaluates arguments the callee frame is not on the
\* stack; each step of the loop leaves the stack alone and either enters the
\* nested call of the next argument (in argument order), appends that
\* argument's value evaluated in the caller's frame, or, when the value is
\* bad, returns bad at once with no frame pushed.
C1_ArgsInCallerFrame ==
    [][(Running /\ Act.pc = "args" /\ Len(Act.args) < Len(Act.call.args)) =>
         LET e == Act.call.args[Len(Act.args) + 1] IN
         /\ Len(stack) = Act.base
         /\ stack' = stack
         /\ IF e.k = "call" /\ ret = <<>>
            THEN /\ Len(ctl') = Len(ctl) + 1
                 /\ Last(ctl').call = e
                 /\ Last(ctl').base = Act.base
                 /\ Front(ctl') = ctl
            ELSE IF NextArgValue.ok
            THEN /\ Len(ctl') = Len(ctl)
                 /\ Last(ctl').pc = "args"
                 /\ Last(ctl').args = Append(Act.args, NextArgValue)
            ELSE /\ ctl' = Front(ctl)
                 /\ ret' = <<Bad>>]_vars

\* C1 witness: sub2(2, <bad>) ended bad after its first argument had been
\* evaluated, and only the root frame is on the stack.
C1_Witness ==
    /\ Done
    /\ top = Call("sub2", <<Lit(2), BadE>>)
    /\ ret = <<Bad>>
    /\ Len(stack) = 1

\* The locals a frame holds once the first k formals of f are bound to vs.
BoundLocals(fr, f, vs, k) ==
    /\ fr.sub = f
    /\ \A j \in 1..k : /\ Formals(f)[j] \in DOMAIN fr.locals
                       /\ fr.locals[Formals(f)[j]] = vs[j]

\* C2: from pushFrame on, the callee's frame is on the stack; while formals
\* are being bound the first nb of them hold the first nb argument values, and
\* when the body is about to run its first statement the frame holds exactly
\* the formals, the i-th bound to the i-th argument value, and the return
\* value local with its default value.
C2_FormalsBoundBeforeBody ==
    \A i \in 1..Len(ctl) :
        LET a == ctl[i]
            f == a.call.f
        IN  /\ a.pc = "bind" =>
                /\ Len(stack) = a.base + 1
                /\ BoundLocals(stack[a.base + 1], f, a.args, a.nb)
                /\ RetVar(f) \notin DOMAIN stack[a.base + 1].locals
            /\ (a.pc = "body" /\ a.bpc = 1) =>
                /\ Len(stack) >= a.base + 1
                /\ Len(a.args) = Len(Formals(f))
                /\ BoundLocals(stack[a.base + 1], f, a.args, Len(Formals(f)))
                /\ DOMAIN stack[a.base + 1].locals =
                       {Formals(f)[j] : j \in 1..Len(Formals(f))} \cup {RetVar(f)}
                /\ stack[a.base + 1].locals[RetVar(f)] = DefaultVal

\* C2 witness: the body of sub2(3, 1) is about to start with a = 3, b = 1.
C2_Witness ==
    /\ Running
    /\ Act.pc = "body"
    /\ Act.bpc = 1
    /\ Act.call.f = "sub2"
    /\ Last(stack).locals["a"] = Val(3)
    /\ Last(stack).locals["b"] = Val(1)

\* C3: when the body has finished, the callee's frame is on top and its return
\* value local holds a value; evalImpl returns that value if the status is
\* Success or Return and bad if it is Fail or Disable.
C3_ResultByStatus ==
    [][(Running /\ Act.pc = "epilogue") =>
         LET held == Last(stack).locals[RetVar(Act.call.f)] IN
         /\ Len(stack) = Act.base + 1
         /\ Last(stack).sub = Act.call.f
         /\ held.ok
         /\ Act.er \in {"Success", "Return", "Fail", "Disable"}
         /\ Act.er \in {"Success", "Return"} => ret' = <<held>>
         /\ Act.er \in {"Fail", "Disable"} => ret' = <<Bad>>]_vars

\* C3 witness: fails(2) is about to return: its return value local holds 2 and
\* the status is Fail.
C3_Witness ==
    /\ Running
    /\ Act.pc = "epilogue"
    /\ Act.call.f = "fails"
    /\ Act.er = "Fail"
    /\ Last(stack).locals["fails"] = Val(2)

\* The subroutines whose body holds a disable statement.
Disabling == {f \in SubNames : \E i \in 1..Len(Body(f)) : Body(f)[i].k = "disable"}

\* C4: when the body ended with status Disable, the step that ends the call
\* appends one ConstEvalDisableTarget diagnostic whose stack trace still has
\* the callee's frame on top, pops that frame and returns bad; every such
\* diagnostic on record was reported with a callee frame on the stack.
C4_DisableDiagBeforePop ==
    /\ [](\A i \in 1..Len(diags) :
            diags[i].code = "ConstEvalDisableTarget" =>
                /\ Len(diags[i].trace) >= 2
                /\ Last(diags[i].trace) \in Disabling)
    /\ [][(Running /\ Act.pc = "epilogue" /\ Act.er = "Disable") =>
            /\ diags' = Append(diags, [code |-> "ConstEvalDisableTarget",
                                       trace |-> FrameSubs(stack)])
            /\ Last(FrameSubs(stack)) = Act.call.f
            /\ stack' = Front(stack)
            /\ ret' = <<Bad>>]_vars

\* C4 witness: dis(2) returned bad and the diagnostic shows the frame of dis.
C4_Witness ==
    /\ Done
    /\ top = Call("dis", <<Lit(2)>>)
    /\ ret = <<Bad>>
    /\ \E i \in 1..Len(diags) :
        /\ diags[i].code = "ConstEvalDisableTarget"
        /\ diags[i].trace = <<NoSub, "dis">>

\* The calls handed to the evaluator whose recursion has no base case.
Unbounded ==
    {Call("down", <<Lit(2)>>), Call("sub2", <<Lit(1), Call("down", <<Lit(2)>>)>>)}

\* C5: the frame stack never exceeds maxRecursionDepth; a call whose pushFrame
\* fails returns bad at once, and no call binds formals or runs a body without
\* a frame of its own; and the evaluation of a call whose recursion has no
\* base case ends, with the result bad.
C5_RecursionTerminates ==
    /\ [](Len(stack) <= maxRecursionDepth)
    /\ [](\A i \in 1..Len(ctl) :
            ctl[i].pc \in {"bind", "body", "epilogue"} =>
                /\ Len(stack) >= ctl[i].base + 1
                /\ stack[ctl[i].base + 1].sub = ctl[i].call.f)
    /\ [][(/\ Running
           /\ Act.pc = "args"
           /\ Len(Act.args) = Len(Act.call.args)
           /\ Len(stack) >= maxRecursionDepth) =>
            /\ ctl' = Front(ctl)
            /\ ret' = <<Bad>>
            /\ stack' = stack]_vars
    /\ (top \in Unbounded) ~> (Done /\ ret = <<Bad>>)

\* C5 as stated, with its example: the evaluation of fact(-1) ends bad.
C5_FactOfMinusOneIsBad ==
    (Done /\ top = Call("fact", <<Lit(-1)>>)) => ret = <<Bad>>

\* C5 witness: down(2) ended bad, with the recursion limit reported from a
\* full stack.
C5_Witness ==
    /\ Done
    /\ top = Call("down", <<Lit(2)>>)
    /\ ret = <<Bad>>
    /\ Len(stack) = 1
    /\ \E i \in 1..Len(diags) :
        /\ diags[i].code = "ConstEvalExceededMaxCallDepth"
        /\ Len(diags[i].trace) = maxRecursionDepth

\* ---------------------------------------------- claims: argument matching

Returned == call # <<>>

\* The named arguments of the call, and its ordered and empty ones.
NamedIdx == {i \in 1..Len(argSyntax) : argSyntax[i].kind = "NamedArgument"}
PosIdx == {i \in 1..Len(argSyntax) : argSyntax[i].kind # "NamedArgument"}

\* The diagnostics with a code.
DiagsOf(code) == {i \in 1..Len(bindDiags) : bindDiags[i].code = code}

FormalIdx(nm) == {k \in 1..Len(formals) : formals[k].name = nm}

\* An ordered (or empty) argument follows a named argument that has a name.
OrderedAfterNamed ==
    \E i \in NamedIdx, j \in PosIdx : i < j /\ argSyntax[i].name # ""

\* The formals whose bound argument the call expression holds.
BoundFormals == {k \in 1..Len(formals) :
                    \E j \in 1..Len(call[1].args) :
                        call[1].args[j].formal = formals[k].name}

\* C6: when the call has no named argument and some formal is past the last
\* ordered (or empty) argument and has no default, there is exactly one
\* TooFewArguments diagnostic, it carries (number of formals, number of
\* ordered arguments), the formals loop stopped at the first such formal (no
\* argument is bound for it or a later one) and the call expression is bad.
C6_TooFewArguments ==
    LET missing == {k \in 1..Len(formals) :
                        k > Cardinality(PosIdx) /\ ~formals[k].init}
    IN  (Returned /\ NamedIdx = {} /\ missing # {}) =>
          LET k0 == CHOOSE k \in missing : \A j \in missing : k <= j IN
          /\ Cardinality(DiagsOf("TooFewArguments")) = 1
          /\ \A i \in DiagsOf("TooFewArguments") :
                /\ bindDiags[i].n1 = Len(formals)
                /\ bindDiags[i].n2 = Cardinality(PosIdx)
                /\ i = Len(bindDiags)
          /\ Len(bindLocals[1].match) = k0
          /\ \A k \in BoundFormals : k < k0
          /\ call[1].bad

\* C6 witness: f(a, b) called as f(1): expected 2, got 1.
C6_Witness ==
    /\ Returned
    /\ Len(formals) = 2
    /\ \A k \in 1..2 : ~formals[k].init
    /\ argSyntax = <<OrderedArg("ok")>>
    /\ bindDiags = <<BindDiag("TooFewArguments", 0, "", 2, 1, 0)>>
    /\ call[1].bad

\* C7 as stated: a call with an ordered (or empty) argument and a named
\* argument, in either order, gets MixingOrderedAndNamedArgs and is bad.
C7_MixingEitherOrder ==
    (Returned /\ PosIdx # {} /\ NamedIdx # {}) =>
        /\ DiagsOf("MixingOrderedAndNamedArgs") # {}
        /\ call[1].bad

\* C7, amended: when an ordered (or empty) argument follows a named argument
\* that has a name, there is exactly one MixingOrderedAndNamedArgs diagnostic,
\* located at the first such argument, it is the last diagnostic, and the call
\* expression is bad with nothing bound; when no ordered argument follows a
\* named one there is no such diagnostic.
C7_MixingOrderedAfterNamed ==
    Returned =>
        IF OrderedAfterNamed
        THEN LET late == {j \in PosIdx : \E i \in NamedIdx :
                              i < j /\ argSyntax[i].name # ""}
                 j0 == CHOOSE j \in late : \A x \in late : j <= x
             IN  /\ DiagsOf("MixingOrderedAndNamedArgs") = {Len(bindDiags)}
                 /\ bindDiags[Len(bindDiags)].at = j0
                 /\ call[1].bad
                 /\ call[1].args = <<>>
        ELSE DiagsOf("MixingOrderedAndNamedArgs") = {}

\* C7 witness: f(a, b) called as f(.a(1), 2) is rejected as mixing.
C7_Witness ==
    /\ Returned
    /\ Len(formals) = 2
    /\ argSyntax = <<NamedArg("a", "ok"), OrderedArg("ok")>>
    /\ bindDiags = <<BindDiag("MixingOrderedAndNamedArgs", 2, "", 0, 0, 0)>>
    /\ call[1].bad

\* The TooManyArguments part of C8 for a call with more ordered arguments than
\* formals: one diagnostic with (formals, ordered arguments), reported after
\* the loop has visited every formal, before any ArgDoesNotExist, call bad.
TooManyReported ==
    /\ Cardinality(DiagsOf("TooManyArguments")) = 1
    /\ \A i \in DiagsOf("TooManyArguments") :
        /\ bindDiags[i].n1 = Len(formals)
        /\ bindDiags[i].n2 = Cardinality(PosIdx)
        /\ \A j \in 1..Len(bindDiags) :
            (j > i) <=> (bindDiags[j].code = "ArgDoesNotExist")
    /\ Len(bindLocals[1].match) = Len(formals)
    /\ call[1].bad

\* C8 as stated: more ordered arguments than formals gives exactly one
\* TooManyArguments and a bad call; otherwise there is no TooManyArguments.
C8_TooManyAlways ==
    Returned =>
        IF Cardinality(PosIdx) > Len(formals)
        THEN TooManyReported
        ELSE DiagsOf("TooManyArguments") = {}

\* C8, amended: when no ordered argument follows a named one and the call has
\* more ordered arguments than formals, there is exactly one TooManyArguments
\* with (number of formals, number of ordered arguments), reported after all
\* formals have been visited, and the call expression is bad; when the ordered
\* arguments do not exceed the formals there is no TooManyArguments.
C8_TooManyArguments ==
    Returned =>
        /\ (~OrderedAfterNamed /\ Cardinality(PosIdx) > Len(formals)) =>
              TooManyReported
        /\ Cardinality(PosIdx) <= Len(formals) =>
              DiagsOf("TooManyArguments") = {}

\* C8 witness: f(a) called as f(1, 2): expected 1, got 2.
C8_Witness ==
    /\ Returned
    /\ Len(formals) = 1
    /\ argSyntax = <<OrderedArg("ok"), OrderedArg("ok")>>
    /\ bindDiags = <<BindDiag("TooManyArguments", 0, "", 1, 2, 0)>>
    /\ call[1].bad

\* The names of the named arguments that match no formal, and those that do.
UnknownNames == {argSyntax[i].name : i \in NamedIdx} \ ({""} \cup
                    {formals[k].name : k \in 1..Len(formals)})
KnownNames == {argSyntax[i].name : i \in NamedIdx} \cap
                    {formals[k].name : k \in 1..Len(formals)}

\* Each name of a named argument that matches no formal has exactly one
\* ArgDoesNotExist diagnostic, located at the first argument of that name, and
\* the call is bad; no ArgDoesNotExist carries a name that matches a formal.
UnknownNamesReported ==
    /\ \A nm \in UnknownNames :
        /\ Cardinality({i \in DiagsOf("ArgDoesNotExist") :
                            bindDiags[i].name = nm}) = 1
        /\ \A i \in DiagsOf("ArgDoesNotExist") :
            bindDiags[i].name = nm =>
                /\ argSyntax[bindDiags[i].at].name = nm
                /\ \A j \in NamedIdx :
                    argSyntax[j].name = nm => bindDiags[i].at <= j
        /\ call[1].bad
    /\ \A i \in DiagsOf("ArgDoesNotExist") : bindDiags[i].name \in UnknownNames

\* C9 as stated: every name of a named argument that matches no formal is
\* reported once and makes the call bad; a name that matches a formal is
\* never reported.
C9_UnknownAlways ==
    Returned => UnknownNamesReported

\* C9, amended: when no ordered argument follows a named one, every name of a
\* named argument that matches no formal is reported by exactly one
\* ArgDoesNotExist and the call is bad; every name that matches a formal is
\* marked used, whether bound or reported as the duplicate of an ordered
\* argument, and is never reported by ArgDoesNotExist.
C9_ArgDoesNotExist ==
    (Returned /\ ~OrderedAfterNamed) =>
        /\ UnknownNamesReported
        /\ bindLocals[1].used = KnownNames
        /\ \A nm \in KnownNames : \A k \in FormalIdx(nm) :
            \/ bindLocals[1].match[k].via = "named"
            \/ /\ bindLocals[1].match[k].via = "ordered"
               /\ \E i \in DiagsOf("DuplicateArgAssignment") :
                    /\ bindDiags[i].name = nm
                    /\ bindDiags[i].note = bindLocals[1].match[k].at

\* C9 witness: f(a) called as f(1, .a(2), .z(3)): a is the duplicate of an
\* ordered argument, z does not exist.
C9_Witness ==
    /\ Returned
    /\ Len(formals) = 1
    /\ argSyntax = <<OrderedArg("ok"), NamedArg("a", "ok"), NamedArg("z", "ok")>>
    /\ bindDiags = <<BindDiag("DuplicateArgAssignment", 2, "a", 0, 0, 1),
                     BindDiag("ArgDoesNotExist", 3, "z", 0, 0, 0)>>
    /\ bindLocals[1].used = {"a"}
    /\ call[1].bad

\* The formal that argument i of the call is matched to (0: none): the p-th
\* ordered or empty argument goes to the p-th formal, and the first named
\* argument of a name goes to the formal of that name when the ordered
\* arguments do not reach it.
MatchedFormal(i) ==
    IF OrderedAfterNamed THEN 0
    ELSE IF i \in PosIdx
    THEN LET p == Cardinality({j \in PosIdx : j <= i}) IN
         IF p <= Len(formals) THEN p ELSE 0
    ELSE LET ks == {k \in FormalIdx(argSyntax[i].name) :
                        /\ k > Cardinality(PosIdx)
                        /\ \A j \in NamedIdx :
                            argSyntax[j].name = argSyntax[i].name => i <= j}
         IN  IF ks = {} THEN 0 ELSE CHOOSE k \in ks : TRUE

\* An empty ordered slot, or a named argument with no expression.
IsEmpty(i) ==
    \/ argSyntax[i].kind = "EmptyArgument"
    \/ argSyntax[i].kind = "NamedArgument" /\ argSyntax[i].expr = "none"

\* C10: an empty argument matched to a formal with a default has the default
\* as that formal's bound argument and no diagnostic is located at it; matched
\* to a formal without a default it has exactly one diagnostic located at it,
\* ArgCannotBeEmpty naming the formal, nothing is bound for the formal and the
\* call expression is bad.
C10_EmptyArgument ==
    Returned =>
        \A i \in 1..Len(argSyntax) :
            (IsEmpty(i) /\ MatchedFormal(i) # 0) =>
                LET k == MatchedFormal(i)
                    at == {j \in 1..Len(bindDiags) : bindDiags[j].at = i}
                IN  /\ bindLocals[1].match[k].at = i
                    /\ IF formals[k].init
                       THEN /\ at = {}
                            /\ \E j \in 1..Len(call[1].args) :
                                call[1].args[j] = Initializer(formals[k])
                       ELSE /\ Cardinality(at) = 1
                            /\ \A j \in at :
                                /\ bindDiags[j].code = "ArgCannotBeEmpty"
                                /\ bindDiags[j].name = formals[k].name
                            /\ k \notin BoundFormals
                            /\ call[1].bad

\* C10 witness: f(a = <default>, b) called as f(, .b()): a takes its default,
\* b cannot be empty.
C10_Witness ==
    /\ Returned
    /\ Len(formals) = 2
    /\ formals[1].init
    /\ ~formals[2].init
    /\ argSyntax = <<EmptyArg, NamedArg("b", "none")>>
    /\ bindDiags = <<BindDiag("ArgCannotBeEmpty", 2, "b", 0, 0, 0)>>
    /\ call[1].args = <<Initializer(formals[1])>>
    /\ call[1].bad

\* ------------------------------------------- claims: constant verification

\* The query has been answered.
Answered(op) == query.op = op /\ answer # <<>>

\* The codes of the diagnostics emitted so far.
DiagCodes == [i \in 1..Len(diags) |-> diags[i].code]

\* The reasons that make a subroutine non-constant, in the order of the tests,
\* each with the diagnostic that reports it.
NotConstantReasons(sub) ==
    <<[holds |-> sub.subroutineKind = "Task",
       code |-> "ConstEvalTaskNotConstant"],
      [holds |-> "DPIImport" \in sub.flags,
       code |-> "ConstEvalDPINotConstant"],
      [holds |-> \E fl \in {"Virtual", "Pure", "Constructor"} : fl \in sub.flags,
       code |-> "ConstEvalMethodNotConstant"],
      [holds |-> "NotConst" \in sub.flags,
       code |-> "ConstEvalSubroutineNotConstant"],
      [holds |-> sub.void,
       code |-> "ConstEvalVoidNotConstant"],
      [holds |-> \E i \in DOMAIN sub.dirs : sub.dirs[i] # "In",
       code |-> "ConstEvalFunctionArgDirection"],
      [holds |-> sub.parentKind = "GenerateBlock",
       code |-> "ConstEvalFunctionInsideGenerate"]>>

\* C11: with script-eval off, checkConstant returns false with exactly one
\* diagnostic, that of the first reason that holds (task, DPI import,
\* virtual/pure/constructor, NotConst, void, a formal not In, inside a
\* generate block), if and only if some reason holds; otherwise it returns
\* true with no diagnostic. With script-eval on it returns true with none.
C11_CheckConstant ==
    Answered("checkConstant") =>
        LET R == NotConstantReasons(query.sub)
            hold == {i \in DOMAIN R : R[i].holds}
        IN  IF scriptEval \/ hold = {}
            THEN answer[1].ok /\ diags = <<>>
            ELSE /\ ~answer[1].ok
                 /\ \E i \in hold :
                      /\ \A j \in hold : i <= j
                      /\ DiagCodes = <<R[i].code>>

\* A void function flagged NotConst inside a generate block is rejected for
\* NotConst alone.
C11_Witness ==
    /\ Answered("checkConstant")
    /\ ~scriptEval
    /\ query.sub.subroutineKind = "Function"
    /\ query.sub.flags = {"NotConst"}
    /\ query.sub.void
    /\ query.sub.parentKind = "GenerateBlock"
    /\ ~answer[1].ok
    /\ DiagCodes = <<"ConstEvalSubroutineNotConstant">>

\* C12 (as claimed): with allowHierarchicalConst enabled, verifyConstant on a
\* HierarchicalValueExpression emits no ConstEvalHierarchicalNameInCE; with it
\* disabled the diagnostic is emitted and verification fails.
C12_HierarchicalSuppressed ==
    Answered("verifyHierarchical") =>
        IF options.allowHierarchicalConst
        THEN \A i \in DOMAIN DiagCodes :
                DiagCodes[i] # "ConstEvalHierarchicalNameInCE"
        ELSE /\ ~answer[1].ok
             /\ DiagCodes = <<"ConstEvalHierarchicalNameInCE">>

\* The top frame belongs to a subroutine and script-eval is off.
InConstantFunction == ~scriptEval /\ Last(stack).sub # NoSub

\* The symbol of the query is a parameter or an enum value.
IsParamOrEnum == query.sym.kind \in {"Parameter", "EnumValue"}

\* The declaration of the symbol of the query against the call-site lookup
\* location of the top frame.
Comparable == query.sym.loc.unit = Last(stack).lookupLocation.unit
DeclaredBefore ==
    Comparable /\ query.sym.loc.index < Last(stack).lookupLocation.index
DeclaredAtOrAfter ==
    Comparable /\ query.sym.loc.index >= Last(stack).lookupLocation.index

\* C13 (as claimed): inside a constant function every parameter or enum value
\* declared at or after the call-site lookup location is rejected with
\* ConstEvalIdUsedInCEBeforeDecl, and every one whose location is not
\* comparable with it is accepted.
C13_AnyTypeOfParameter ==
    (Answered("verifyNamed") /\ InConstantFunction /\ IsParamOrEnum) =>
        /\ answer[1].ok => (DeclaredBefore \/ ~Comparable)
        /\ DeclaredAtOrAfter =>
              /\ ~answer[1].ok
              /\ DiagCodes = <<"ConstEvalIdUsedInCEBeforeDecl">>
        /\ ~Comparable => (answer[1].ok /\ diags = <<>>)

\* C13: inside a constant function a parameter or enum value verifies only if
\* it is declared before the call-site lookup location of the frame or the
\* two locations are not comparable; one of non-class type declared at or
\* after that location is rejected with ConstEvalIdUsedInCEBeforeDecl, and
\* one of non-class type whose location is not comparable is accepted.
C13_DeclaredBeforeCallSite ==
    (Answered("verifyNamed") /\ InConstantFunction /\ IsParamOrEnum) =>
        /\ answer[1].ok => (DeclaredBefore \/ ~Comparable)
        /\ (~query.sym.isClass /\ DeclaredBefore) =>
              (answer[1].ok /\ diags = <<>>)
        /\ (~query.sym.isClass /\ DeclaredAtOrAfter) =>
              /\ ~answer[1].ok
              /\ DiagCodes = <<"ConstEvalIdUsedInCEBeforeDecl">>
        /\ (~query.sym.isClass /\ ~Comparable) =>
              (answer[1].ok /\ diags = <<>>)
        /\ query.sym.isClass =>
              (~answer[1].ok /\ DiagCodes = <<"ConstEvalClassType">>)

\* A parameter declared exactly at the call-site location is rejected.
C13_Witness ==
    /\ Answered("verifyNamed")
    /\ InConstantFunction
    /\ query.sym.kind = "Parameter"
    /\ ~query.sym.isClass
    /\ Comparable
    /\ query.sym.loc.index = Last(stack).lookupLocation.index
    /\ ~answer[1].ok
    /\ DiagCodes = <<"ConstEvalIdUsedInCEBeforeDecl">>

\* The executing subroutine is one of the enclosing scopes of the symbol.
LocalToFunction ==
    \E i \in DOMAIN query.sym.scopes : query.sym.scopes[i] = Last(stack).sub

\* C14 (as claimed): inside a constant function a symbol that is neither a
\* parameter nor an enum value verifies if and only if it is local to the
\* executing subroutine, and is otherwise rejected with
\* ConstEvalFunctionIdentifiersMustBeLocal.
C14_AnyTypeOfVariable ==
    (Answered("verifyNamed") /\ InConstantFunction /\ ~IsParamOrEnum) =>
        IF LocalToFunction
        THEN answer[1].ok /\ diags = <<>>
        ELSE /\ ~answer[1].ok
             /\ DiagCodes = <<"ConstEvalFunctionIdentifiersMustBeLocal">>

\* C14: inside a constant function a symbol of non-class type that is neither
\* a parameter nor an enum value verifies if and only if the executing
\* subroutine is one of its enclosing scopes, and is otherwise rejected with
\* ConstEvalFunctionIdentifiersMustBeLocal; a symbol of class type is rejected
\* with ConstEvalClassType wherever it is declared; outside any subroutine
\* frame every non-class named value verifies.
C14_IdentifiersMustBeLocal ==
    (Answered("verifyNamed") /\ ~scriptEval) =>
        /\ (InConstantFunction /\ ~IsParamOrEnum /\ ~query.sym.isClass) =>
              IF LocalToFunction
              THEN answer[1].ok /\ diags = <<>>
              ELSE /\ ~answer[1].ok
                   /\ DiagCodes = <<"ConstEvalFunctionIdentifiersMustBeLocal">>
        /\ query.sym.isClass =>
              (~answer[1].ok /\ DiagCodes = <<"ConstEvalClassType">>)
        /\ (~InConstantFunction /\ ~query.sym.isClass) =>
              (answer[1].ok /\ diags = <<>>)

\* A variable of a block nested in the executing function verifies.
C14_Witness ==
    /\ Answered("verifyNamed")
    /\ InConstantFunction
    /\ query.sym.kind = "Variable"
    /\ ~query.sym.isClass
    /\ Len(query.sym.scopes) > 1
    /\ query.sym.scopes[1] = "blk"
    /\ LocalToFunction
    /\ answer[1].ok

\* The value of the local bound to the symbol of the query: <<v>> or <<>>.
LocalOfSymbol == FindLocal(stack, query.sym.name)

\* C15 (as claimed): evalImpl returns the stored value of a parameter or enum
\* value, for any other symbol the value of its local, and without a local
\* bad with ConstEvalNonConstVariable; evalLValueImpl returns a bad l-value
\* with the same diagnostic when there is no local.
C15_EvalWithoutVerify ==
    /\ Answered("evalNamed") =>
          IF IsParamOrEnum THEN answer[1].v = query.sym.value /\ diags = <<>>
          ELSE IF LocalOfSymbol # <<>>
          THEN answer[1].v = LocalOfSymbol[1] /\ diags = <<>>
          ELSE /\ answer[1].v = Bad
               /\ DiagCodes = <<"ConstEvalNonConstVariable">>
    /\ (Answered("evalLValueNamed") /\ LocalOfSymbol = <<>>) =>
          /\ answer[1].lv = <<>>
          /\ DiagCodes = <<"ConstEvalNonConstVariable">>

\* C15: when the reference verifies as constant, evalImpl returns the stored
\* value of a parameter or enum value, for any other symbol the value of its
\* local, and without a local bad with ConstEvalNonConstVariable, and
\* evalLValueImpl returns the l-value of the local, or a bad l-value with
\* ConstEvalNonConstVariable without one; when the reference does not verify
\* both return bad with the diagnostic of the verification alone.
C15_NamedValueEval ==
    LET d == NamedValueVerify(query.sym, stack, scriptEval) IN
    /\ Answered("evalNamed") =>
          IF d # "" THEN answer[1].v = Bad /\ DiagCodes = <<d>>
          ELSE IF IsParamOrEnum
          THEN answer[1].v = query.sym.value /\ diags = <<>>
          ELSE IF LocalOfSymbol # <<>>
          THEN answer[1].v = LocalOfSymbol[1] /\ diags = <<>>
          ELSE /\ answer[1].v = Bad
               /\ DiagCodes = <<"ConstEvalNonConstVariable">>
    /\ Answered("evalLValueNamed") =>
          IF d # "" THEN answer[1].lv = <<>> /\ DiagCodes = <<d>>
          ELSE IF LocalOfSymbol = <<>>
          THEN /\ answer[1].lv = <<>>
               /\ DiagCodes = <<"ConstEvalNonConstVariable">>
          ELSE answer[1].lv = <<query.sym.name>> /\ diags = <<>>

\* A parameter evaluated inside a constant function gives its stored value
\* though a local of the same name exists.
C15_Witness ==
    /\ Answered("evalNamed")
    /\ InConstantFunction
    /\ query.sym.kind = "Parameter"
    /\ LocalOfSymbol # <<>>
    /\ LocalOfSymbol[1] # query.sym.value
    /\ answer[1].v = query.sym.value

\* ------------------------------------------------------- claims: binding

\* The codes of the diagnostics of the bind context.
BindCodes == [i \in 1..Len(bindDiags) |-> bindDiags[i].code]

\* The class that encloses the reference site through statement blocks and
\* subroutines only: <<c>>, or <<>> when there is none.
EnclosingClass ==
    LET sc == bindCtx.scope
        cls == {i \in DOMAIN sc :
                   /\ sc[i].kind = "ClassType"
                   /\ \A j \in 1..(i - 1) :
                         sc[j].kind \in {"Subroutine", "StatementBlock"}}
    IN  IF cls = {} THEN <<>> ELSE <<sc[CHOOSE i \in cls : TRUE].name>>

\* A static subroutine lies between the reference site and that class.
StaticOnPath ==
    \E i \in DOMAIN bindCtx.scope :
        /\ bindCtx.scope[i].kind = "Subroutine"
        /\ bindCtx.scope[i].static
        /\ \A j \in 1..i : bindCtx.scope[j].kind # "ClassType"

\* The enclosing class is the class of the member or derives from it.
OwnOrDerived(member) ==
    /\ EnclosingClass # <<>>
    /\ \/ EnclosingClass[1] = member.parent.name
       \/ BaseClass(EnclosingClass[1]) = member.parent.name

\* The reference to the member is allowed where it is made.
AccessAllowed(member) ==
    /\ OwnOrDerived(member)
    /\ ~StaticOnPath
    /\ "StaticInitializer" \notin bindCtx.flags

\* The one diagnostic a refused access gets, the nested-class one first.
RefusedWith(member, nested, static) ==
    /\ answer[1].bad
    /\ BindCodes = <<IF EnclosingClass # <<>> /\ ~OwnOrDerived(member)
                     THEN nested ELSE static>>

\* C16: a reference to a non-static class property binds if and only if
\* access is allowed at the reference site, and a call of a non-static class
\* method without a class handle binds only if it is; a refused access gets
\* exactly one diagnostic, the nested-class one taking precedence over the
\* static one, and the expression is bad.
C16_NonStaticMemberAccess ==
    /\ (/\ Answered("fromSymbol")
        /\ query.symbol.kind = "ClassProperty"
        /\ query.symbol.lifetime = "Automatic") =>
          IF AccessAllowed(query.symbol)
          THEN ~answer[1].bad /\ bindDiags = <<>>
          ELSE RefusedWith(query.symbol, "NestedNonStaticClassProperty",
                           "NonStaticClassProperty")
    /\ (/\ Answered("fromLookup")
        /\ query.sub.parent.kind = "ClassType"
        /\ ~query.sub.static
        /\ ~query.thisClass) =>
          IF AccessAllowed(query.sub)
          THEN \A i \in DOMAIN BindCodes :
                  BindCodes[i] \notin {"NestedNonStaticClassMethod",
                                       "NonStaticClassMethod"}
          ELSE RefusedWith(query.sub, "NestedNonStaticClassMethod",
                           "NonStaticClassMethod")

\* A property of Base referred to from a static method of the nested class
\* Inner gets the nested-class diagnostic alone.
C16_Witness ==
    /\ Answered("fromSymbol")
    /\ query.symbol.kind = "ClassProperty"
    /\ query.symbol.lifetime = "Automatic"
    /\ query.symbol.parent.name = "Base"
    /\ EnclosingClass = <<"Inner">>
    /\ StaticOnPath
    /\ answer[1].bad
    /\ BindCodes = <<"NestedNonStaticClassProperty">>

\* The context of the assignment is procedural.
Procedural == "ProceduralStatement" \in bindCtx.flags

\* C17: verifyAssignableImpl refuses with one diagnostic a parameter or enum
\* value in every context, a net in a procedural context and a symbol of
\* chandle type outside a procedural context; a symbol in none of these
\* cases that is not a variable is accepted with no diagnostic.
C17_VerifyAssignable ==
    Answered("verifyAssignable") =>
        LET k == query.symbol.kind
            refused == ~answer[1].ok /\ Len(bindDiags) = 1
        IN
        /\ k \in {"Parameter", "EnumValue"} =>
              (refused /\ BindCodes = <<"ExpressionNotAssignable">>)
        /\ (k = "Net" /\ Procedural) =>
              (refused /\ BindCodes = <<"AssignToNet">>)
        /\ (query.symbol.isCHandle /\ ~Procedural) => refused
        /\ (query.symbol.isCHandle /\ ~Procedural
            /\ k \notin {"Parameter", "EnumValue"}) =>
              BindCodes = <<"AssignToCHandle">>
        /\ (/\ k \notin {"Parameter", "EnumValue"}
            /\ ~(k = "Net" /\ Procedural)
            /\ ~(query.symbol.isCHandle /\ ~Procedural)
            /\ k \notin {"Variable", "FormalArgument", "ClassProperty"}) =>
              (answer[1].ok /\ bindDiags = <<>>)

\* A net assigned outside a procedural context is accepted.
C17_Witness ==
    /\ Answered("verifyAssignable")
    /\ query.symbol.kind = "Net"
    /\ ~query.symbol.isCHandle
    /\ ~Procedural
    /\ answer[1].ok
    /\ bindDiags = <<>>

\* The branch of the bound expression the minTypMax option names.
OptionBranch ==
    CASE options.minTypMax = "Min" -> answer[1].min
      [] options.minTypMax = "Typ" -> answer[1].typ
      [] options.minTypMax = "Max" -> answer[1].max

\* C18: exactly the branch the minTypMax option names is bound without the
\* UnevaluatedBranch flag and the other two with it; that branch is the
\* selected one; type, effective width, verifyConstant and eval of the
\* min:typ:max expression are those of that branch, and evaluation
\* evaluates no other branch.
C18_MinTypMax ==
    (query.op = "minTypMax" /\ answer # <<>>) =>
        LET e == answer[1]
            unevaluated(b) == "UnevaluatedBranch" \in b.flags
        IN
        /\ ~unevaluated(OptionBranch)
        /\ Cardinality({nm \in {"min", "typ", "max"} :
                            unevaluated(e[nm])}) = 2
        /\ Selected(e) = OptionBranch
        /\ e[e.selected] = OptionBranch
        /\ e.type = OptionBranch.type
        /\ MinTypMaxEffectiveWidth(e) = OptionBranch.width
        /\ MinTypMaxVerifyConstant(e) = (OptionBranch.const /\ ~OptionBranch.bad)
        /\ ret # <<>> =>
              /\ ret[1] = BranchEval(OptionBranch)
              /\ query.evaluated = <<e.selected>>

\* With the option at Max and a typ branch that is not a constant, the
\* expression evaluates to the value of its max branch.
C18_Witness ==
    /\ query.op = "minTypMax"
    /\ answer # <<>>
    /\ options.minTypMax = "Max"
    /\ ~query.syntax.typ.const
    /\ query.syntax.max.const
    /\ ~answer[1].bad
    /\ ret = <<answer[1].max.value>>
    /\ query.evaluated = <<"max">>

\* ------------------------------------------------------- claims: with-clauses

\* The with-clause of the query can have an iteration expression bound:
\* no constraint block, and exactly one expression in its list.
WellFormedWith ==
    /\ ~query.withClause.constraints
    /\ query.withClause.args # <<>>
    /\ Len(query.withClause.args[1]) = 1

\* The arguments written in the invocation of the query.
ActualArgs ==
    IF query.invocation = <<>> THEN <<>>
    ELSE IF query.invocation[1].arguments = <<>> THEN <<>>
    ELSE query.invocation[1].arguments[1]

OneIdentifier ==
    /\ Len(ActualArgs) = 1
    /\ ActualArgs[1].kind = "OrderedArgument"
    /\ ActualArgs[1].exprKind = "IdentifierName"

IterationBound == answer[1].expr # <<>>

NamedIterator(nm) ==
    /\ IterationBound
    /\ answer[1].iterVar # <<>>
    /\ answer[1].iterVar[1].name = nm

BindEmitted(code) == \E i \in DOMAIN bindDiags : bindDiags[i].code = code

\* C19 as stated: with no argument list or an empty one the iterator is
\* named item; with one ordered argument that is an identifier it takes
\* the name of the identifier, whatever that is; any other argument list
\* emits ExpectedIteratorName and binds nothing.
C19_AnyIdentifier ==
    (Answered("bindIteratorExpr") /\ WellFormedWith) =>
        IF ActualArgs = <<>> THEN NamedIterator("item")
        ELSE IF OneIdentifier THEN NamedIterator(ActualArgs[1].name)
        ELSE BindEmitted("ExpectedIteratorName") /\ ~IterationBound

\* C19: with no argument list or an empty one the iterator is named item;
\* with one ordered argument that is an identifier of non-empty text it
\* takes that name; an identifier of empty text binds nothing and emits
\* nothing; any other argument list emits ExpectedIteratorName and binds
\* nothing.
C19_IteratorName ==
    (Answered("bindIteratorExpr") /\ WellFormedWith) =>
        IF ActualArgs = <<>> THEN NamedIterator("item")
        ELSE IF OneIdentifier /\ ActualArgs[1].name # ""
        THEN NamedIterator(ActualArgs[1].name)
        ELSE IF OneIdentifier
        THEN /\ ~IterationBound
             /\ answer[1].iterVar = <<>>
             /\ bindDiags = <<>>
        ELSE /\ BindEmitted("ExpectedIteratorName")
             /\ ~IterationBound
             /\ answer[1].iterVar = <<>>

\* An identifier followed by a second argument: ExpectedIteratorName is
\* emitted and nothing is bound.
C19_Witness ==
    /\ Answered("bindIteratorExpr")
    /\ WellFormedWith
    /\ Len(ActualArgs) = 2
    /\ ActualArgs[1].exprKind = "IdentifierName"
    /\ ActualArgs[1].name = "x"
    /\ BindEmitted("ExpectedIteratorName")
    /\ ~IterationBound

\* The names of the iterators of the with-clauses being bound, innermost
\* first.
RECURSIVE InnermostFirst(_)
InnermostFirst(frames) ==
    IF frames = <<>> THEN <<>>
    ELSE <<Last(frames).iterVar[1].name>> \o InnermostFirst(Front(frames))

\* child is the bind context of a with-clause with iterator it, bound in
\* the context parent.
ChildOf(child, it, parent) ==
    /\ child.firstIterator = <<it>>
    /\ it.nextIterator = parent.firstIterator
    /\ IteratorChain(child.firstIterator)
           = <<it.name>> \o IteratorChain(parent.firstIterator)
    /\ "StaticInitializer" \notin child.flags
    /\ child.flags = parent.flags \ {"StaticInitializer"}
    /\ child.scope = parent.scope

\* C20: the context a with-clause binds its iteration expression in has
\* the new iterator at the head of its chain, linked to the head of the
\* chain of the enclosing context, and no StaticInitializer flag; the
\* enclosing context is the same after the call as before it; under
\* nested with-clauses the chain lists the iterators innermost first.
C20_ChildContext ==
    [][/\ (answer = <<>> /\ answer' # <<>>) =>
            /\ bindCtx' = bindCtx
            /\ answer'[1].iterCtx # <<>> =>
                  ChildOf(answer'[1].iterCtx[1], answer'[1].iterVar[1],
                          bindCtx)
       /\ Len(enclosing') > Len(enclosing) =>
            /\ Last(enclosing').context = bindCtx
            /\ Last(enclosing').iterCtx = <<bindCtx'>>
            /\ ChildOf(bindCtx', Last(enclosing').iterVar[1], bindCtx)
            /\ IteratorChain(bindCtx'.firstIterator)
                   = InnermostFirst(enclosing')
       /\ Len(enclosing') < Len(enclosing) =>
            /\ bindCtx' = Last(enclosing).context
            /\ IteratorChain(bindCtx'.firstIterator)
                   = InnermostFirst(enclosing')]_vars

\* A with-clause naming x bound inside one naming nothing, the outer one
\* met in a static initializer: the chain is x then item, the flag is gone
\* from the inner contexts and kept by the outermost.
C20_Witness ==
    /\ Len(enclosing) = 2
    /\ answer = <<>>
    /\ "StaticInitializer" \in enclosing[1].context.flags
    /\ "StaticInitializer" \notin bindCtx.flags
    /\ IteratorChain(enclosing[1].context.firstIterator) = <<>>
    /\ IteratorChain(enclosing[2].context.firstIterator) = <<"item">>
    /\ IteratorChain(bindCtx.firstIterator) = <<"x", "item">>

\* ------------------------------------ claims: the returned call expression

\* C28 as stated: whenever fromArgs emitted an argument-matching diagnostic
\* the returned call expression is bad, and a call expression that is not
\* bad has no bad bound argument.
C28_EveryDiagnosticIsBad ==
    Returned =>
        /\ bindDiags # <<>> => call[1].bad
        /\ ~call[1].bad =>
              \A j \in 1..Len(call[1].args) : ~call[1].args[j].bad

\* C29: a call expression that is not bad holds one bound argument for each
\* formal of the callee, the i-th being the one matched to the i-th formal:
\* bound from the ordered or named argument the formal was matched to, or
\* else the default of the formal.
C29_BoundArgsMatchFormals ==
    (Returned /\ ~call[1].bad) =>
        /\ Len(call[1].args) = Len(formals)
        /\ Len(bindLocals[1].match) = Len(formals)
        /\ \A i \in 1..Len(formals) :
            LET m == bindLocals[1].match[i]
                arg == call[1].args[i]
                empty == IsEmpty(m.at)
            IN  /\ arg.formal = formals[i].name
                /\ IF m.via = "none" \/ empty
                   THEN formals[i].init /\ arg = Initializer(formals[i])
                   ELSE /\ arg.from = "arg"
                        /\ arg.at = m.at
                        /\ MatchedFormal(m.at) = i

\* f(a, b = <default>) called as f(.b(), .a(x)): the call is not bad, its
\* first bound argument is x for a and its second the default of b.
C29_Witness ==
    /\ Returned
    /\ ~call[1].bad
    /\ Len(formals) = 2
    /\ ~formals[1].init
    /\ formals[2].init
    /\ argSyntax = <<NamedArg("b", "none"), NamedArg("a", "ok")>>
    /\ call[1].args = <<BindArgument(formals[1], 2, "ok"),
                        Initializer(formals[2])>>

\* ------------------------------------------ claims: verification of calls

\* The call expressions whose body check is in progress.
BodyChecks == {k \in 1..Len(vctl) : vctl[k].pc \in {"body", "pop"}}

\* verifyConstantImpl is about to test the flag of a call that passed
\* checkConstant and whose body check is in progress.
GuardHit ==
    /\ Verifying
    /\ VAct.pc = "check"
    /\ CheckConstant(SymbolOf(VAct.call.f), scriptEval) = ""
    /\ \E k \in BodyChecks : vctl[k].call = VAct.call

\* C27: every verification of a call ends; a verifyConstant of a call
\* expression nested in the body check of that same call expression returns
\* true at once, with no frame pushed, no diagnostic and no second body
\* check; the flags that are set are those of the calls whose body check is
\* in progress, so none is set once the outermost check has returned.
C27_RecursionGuard ==
    /\ Verifying ~> ~Verifying
    /\ [][GuardHit => /\ vctl' = Front(vctl)
                      /\ vret' = <<TRUE>>
                      /\ stack' = stack
                      /\ diags' = diags
                      /\ inRecursion' = inRecursion]_vars
    /\ [](/\ inRecursion = {vctl[k].call : k \in BodyChecks}
          /\ \A j, k \in BodyChecks : vctl[j].call = vctl[k].call => j = k
          /\ ~Verifying => inRecursion = {})

\* ping(2) is verified: the body of ping calls pong, the body of pong calls
\* ping, whose body calls pong again; that last verification has returned
\* true with three frames pushed and three flags set.
C27_Witness ==
    /\ top = Call("ping", <<Lit(2)>>)
    /\ Len(vctl) = 3
    /\ VAct.pc = "body"
    /\ BodyExprs(Body(VAct.call.f))[VAct.bi] \in inRecursion
    /\ vret = <<TRUE>>
    /\ Len(stack) = 4
    /\ Cardinality(inRecursion) = 3

\* The frames of a stack: the subroutine and call site of each.
FrameIds(st) ==
    [i \in 1..Len(st) |->
        [sub |-> st[i].sub, lookupLocation |-> st[i].lookupLocation]]

\* C30: no step of an evalImpl or verifyConstantImpl in progress touches a
\* frame that was on the stack when it was entered, and when it returns, on
\* any path, the stack has the depth it had on entry: the frames are those
\* of the entry.
C30_FramesBalanced ==
    [][/\ \A k \in 1..Len(ctl) :
            /\ Len(stack') >= ctl[k].base
            /\ SubSeq(FrameIds(stack'), 1, ctl[k].base)
                   = SubSeq(FrameIds(stack), 1, ctl[k].base)
       /\ \A k \in 1..Len(vctl) :
            /\ Len(stack') >= vctl[k].base
            /\ SubSeq(FrameIds(stack'), 1, vctl[k].base)
                   = SubSeq(FrameIds(stack), 1, vctl[k].base)
       /\ (Running /\ ctl' = Front(ctl)) => Len(stack') = Act.base
       /\ (Verifying /\ vctl' = Front(vctl)) => Len(stack') = VAct.base]_vars

\* d1() has been verified: the fifth frame could not be pushed, every
\* verification on the way returned false and the stack is the one of the
\* start.
C30_Witness ==
    /\ top = Call("d1", <<>>)
    /\ ~Verifying
    /\ vret = <<FALSE>>
    /\ \E i \in 1..Len(diags) :
          /\ diags[i].code = "ConstEvalExceededMaxCallDepth"
          /\ Len(diags[i].trace) = maxRecursionDepth
    /\ stack = <<Frame(NoSub, NoLocation)>>

\* ---------------------------------------------------------- claims: imports

\* The calls made so far with an operation, as indices into answer.
CallsOf(op) == {i \in 1..Len(answer) : answer[i].op = op}

\* The explicit import of the design cannot be resolved: its package does
\* not exist, or has no member of the imported name.
Unresolvable ==
    LET e == imports[1].explicit IN
    \/ e.packageName \notin DOMAIN imports[1].root
    \/ e.importName \notin imports[1].root[e.packageName]

\* C21 as stated: once importedSymbol() has been called on an explicit
\* import that cannot be resolved, a diagnostic has been produced and every
\* call of importedSymbol() has returned no symbol.
C21_FailedImportDiagnosed ==
    (Unresolvable /\ CallsOf("importedSymbol") # {}) =>
        /\ diags # <<>> \/ bindDiags # <<>>
        /\ \A i \in CallsOf("importedSymbol") : answer[i].result = <<>>

\* C22: findPackage and lookupDirect are called for an explicit import by
\* its first package() or importedSymbol() call and by no later one, and
\* findPackage for a wildcard import by its first getPackage() call and by
\* no later one, found or not; every call of an operation returns what the
\* first call of it returned.
C22_ResolvedOnce ==
    LET e == imports[1].explicit
        w == imports[1].wildcard
        used == CallsOf("importedSymbol") \cup CallsOf("package")
    IN
    /\ e.finds = (IF used = {} THEN 0 ELSE 1)
    /\ e.lookups = (IF used # {} /\ e.package_ # <<>> THEN 1 ELSE 0)
    /\ w.finds = (IF CallsOf("getPackage") = {} THEN 0 ELSE 1)
    /\ \A op \in {"importedSymbol", "package", "getPackage"} :
          \A i, j \in CallsOf(op) : answer[i].result = answer[j].result
    /\ \A i \in CallsOf("importedSymbol") :
          answer[i].result =
              (IF Unresolvable THEN <<>>
               ELSE <<[package |-> e.packageName, name |-> e.importName]>>)
    /\ \A i \in CallsOf("package") \cup CallsOf("getPackage") :
          answer[i].result = FindPackage(imports[1].root, e.packageName)

\* getPackage() called three times on a wildcard import of a package that
\* does not exist: one findPackage, three null results.
C22_Witness ==
    /\ imports[1].wildcard.packageName \notin DOMAIN imports[1].root
    /\ Cardinality(CallsOf("getPackage")) = MaxCalls
    /\ imports[1].wildcard.finds = 1
    /\ \A i \in CallsOf("getPackage") : answer[i].result = <<>>

\* ------------------------------------------------------------ claims: types

\* C23: for every type T of the table, getCanonicalType() of T returns a
\* type of the table (never the null pointer) that is not an alias and that
\* is its own canonical type; it is T itself when T is not an alias; and
\* the call that was last made returned that type and left it as the
\* canonical pointer of T.
C23_CanonicalFixpoint ==
    /\ \A t \in 1..Len(types) :
        LET c == GetCanonicalType(types, t).result IN
        /\ c \in 1..Len(types)
        /\ ~types[c].alias
        /\ GetCanonicalType(types, c).result = c
        /\ types[c].canonical = c
        /\ ~types[t].alias => c = t
        /\ types[t].canonical \in {NullType, c}
    /\ (query.op = "getCanonicalType" /\ answer # <<>>) =>
        /\ answer[1] = GetCanonicalType(types, query.t).result
        /\ types[query.t].canonical = answer[1]

\* An alias of an alias of a type: the call on the outer alias returned the
\* type, and the inner alias is not resolved yet.
C23_Witness ==
    /\ Len(types) >= 3
    /\ ~types[1].alias
    /\ types[2] = NewTypeAlias(1)
    /\ types[3].alias
    /\ types[3].target = 2
    /\ query = [op |-> "getCanonicalType", t |-> 3]
    /\ answer = <<1>>
    /\ types[3].canonical = 1

\* ----------------------------------------------------------- claims: scopes

Inheritable(ports, i) ==
    LET J == {j \in 1..(i - 1) :
                 /\ ports[j].dataType # NoDataType
                 /\ \A k \in (j + 1)..(i - 1) :
                       ~(ports[k].direction # "Unknown"
                         /\ ports[k].dataType = NoDataType)}
    IN  IF J = {} THEN 0 ELSE CHOOSE j \in J : \A m \in J : m <= j

\* C25: in SubroutineSymbol::fromSyntax a formal with no direction keyword
\* takes the direction of the formal just before it, In for the first; a
\* formal with a data type uses it; a formal with none is logic when it
\* writes a direction or no type is inheritable, and otherwise has the type
\* of the nearest earlier formal that wrote a data type with no formal in
\* between that wrote a direction and no type.
C25_FormalsInherit ==
    query.op = "fromSyntax" /\ answer # <<>> =>
        LET ports == query.syntax.ports
            arguments == answer[1].arguments
        IN  /\ Len(arguments) = Len(ports)
            /\ \A i \in 1..Len(ports) :
                /\ arguments[i].name = ports[i].name
                /\ ports[i].direction = "Unknown" =>
                      arguments[i].direction =
                          IF i = 1 THEN "In" ELSE arguments[i - 1].direction
                /\ ports[i].direction # "Unknown" =>
                      arguments[i].direction =
                          PortDirection(ports[i], "In").direction
                /\ ports[i].dataType # NoDataType =>
                      arguments[i].type = ports[i].dataType
                /\ ports[i].dataType = NoDataType =>
                      arguments[i].type =
                          IF \/ ports[i].direction # "Unknown"
                             \/ Inheritable(ports, i) = 0
                          THEN LogicType
                          ELSE ports[Inheritable(ports, i)].dataType

\* fromSyntax has returned for the ports `(int a1, output a2, a3)`: the third
\* writes neither direction nor type after a second that wrote only a
\* direction, so it is logic although the first wrote a type, and it has the
\* direction of the second.
C25_Witness ==
    /\ query.op = "fromSyntax"
    /\ answer # <<>>
    /\ Len(query.syntax.ports) = 3
    /\ query.syntax.ports[1].dataType = "int"
    /\ query.syntax.ports[2].direction = "OutputKeyword"
    /\ query.syntax.ports[2].dataType = NoDataType
    /\ query.syntax.ports[3].direction = "Unknown"
    /\ query.syntax.ports[3].dataType = NoDataType
    /\ answer[1].arguments[3].type = LogicType
    /\ answer[1].arguments[3].direction = "Out"

\* The variable declarations among the initializers of a for loop, in order.
Declared(initializers) ==
    SelectSeq(initializers, LAMBDA i : i.kind = "ForVariableDeclaration")

\* The body symbols as the specification lists them: a for loop with a
\* variable declaration among its initializers gives one block that holds
\* the first variable they declare, any other for loop gives the symbols of
\* its body statement, a conditional those of its branches, a block
\* statement a block.
RECURSIVE SpecifiedChildSymbols(_)
SpecifiedChildSymbols(syntax) ==
    CASE syntax.kind = "ConditionalStatement" ->
            SpecifiedChildSymbols(syntax.statement[1])
            \o (IF syntax.elseClause # <<>>
                THEN SpecifiedChildSymbols(syntax.elseClause[1])
                ELSE <<>>)
      [] syntax.kind = "ForLoopStatement" ->
            IF Declared(syntax.initializers) # <<>>
            THEN <<SequentialBlockSymbol(
                     <<VariableSymbol(Declared(syntax.initializers)[1].name)>>)>>
            ELSE SpecifiedChildSymbols(syntax.statement[1])
      [] syntax.kind = "SequentialBlockStatement" ->
            <<SequentialBlockSymbol(<<>>)>>
      [] syntax.kind = "DataDeclaration" ->
            [i \in 1..Len(syntax.declarators) |->
                VariableSymbol(syntax.declarators[i])]
      [] OTHER -> <<>>

RECURSIVE SpecifiedBodySymbols(_)
SpecifiedBodySymbols(items) ==
    IF items = <<>> THEN <<>>
    ELSE SpecifiedChildSymbols(Head(items))
         \o SpecifiedBodySymbols(Tail(items))

\* C26: among the child symbols of a subroutine body a for loop has an
\* implicit block if and only if one of its initializers is a variable
\* declaration; then exactly one block is appended for the loop and it holds
\* the loop variable the initializers declare, and otherwise no block is made
\* and the search goes on in the loop's body statement.  The members of the
\* subroutine are its formals in declaration order and then these body
\* symbols in syntactic order.
C26_ImplicitBlocks ==
    query.op = "fromSyntax" /\ answer # <<>> =>
        /\ ~answer[1].aborted
        /\ answer[1].members =
              FormalArguments(query.syntax.ports, NoDataType, "In")
              \o SpecifiedBodySymbols(query.syntax.items)

====
